---- MODULE Spec2Model ----
(***************************************************************************)
(* State-machine model of the k8s-tui session core: the Bubble Tea Model   *)
(* of internal/app/app.go (Update and its key handlers), the log view      *)
(* model of internal/ui/logs.go, and the log reader goroutine of           *)
(* internal/k8s/logs.go.                                                   *)
(*                                                                         *)
(* Log lines are natural numbers: line i of stream s is                    *)
(* s * LineBase + i, and 0 is the empty string.                            *)
(***************************************************************************)
EXTENDS Integers, Sequences, FiniteSets, Bags, TLC

\* ---------------------------------------------------------------- bounds
MaxStreams == 2
MaxSourceLines == 2
MaxScrollLines == 3
MaxPodsLines == 1
MaxPodsStreams == 1
MaxNavStreams == 1
MaxInFlight == 2
MaxHelpInFlight == 1
MaxLoadsInFlight == 2
MaxSelectInFlight == 2
MaxSwitchInFlight == 2
MaxRetryInFlight == 2
MaxTotalStreams == 1
MaxTotalInFlight == 2
MaxLsLines == 2
MaxCmdLen == 4
MaxExecHistory == 2
MaxExecOutput == 2
MaxExecInput == 2
MaxExecCalls == 3
ExecHeadroom == 1
MaxPathHistory == 3
MaxRestartStreams == 2
MaxRestartInFlight == 2
MaxStreamLines == 103
TrimHeadroom == 5

\* ------------------------------------------------------ program constants
DefaultMaxLines == 10000
TestMaxLines == 100
ChanCap == 100
LineBase == 1000
maxHistorySize == 50
maxOutputLines == 5000
CharLimit == 500

\* ------------------------------------------------------------- variables
VARIABLES
  m,        \* the application Model (app.go:58-102), logView nested
  client,   \* the shared k8s client's mutable fields
  streams,  \* per log stream: context, reader goroutine, line channel
  cmds,     \* bag of asynchronous operations that are running
  msgs,     \* bag of result messages not yet processed by Update
  exit,     \* "running", "quit" after tea.Quit, "panic" after a fault
  beneath   \* screens covered by the overlays that are open

vars == <<m, client, streams, cmds, msgs, exit, beneath>>

Max(a, b) == IF a > b THEN a ELSE b
Min(a, b) == IF a < b THEN a ELSE b

\* ------------------------------------------------- bubbles viewport.Model
\* vp = [lines: content lines, YOffset, Height, keys: default key map set]
ZeroViewport == [lines |-> <<>>, YOffset |-> 0, Height |-> 0, keys |-> FALSE]

NewViewport(h) == [lines |-> <<>>, YOffset |-> 0, Height |-> h, keys |-> TRUE]

maxYOffset(vp) == Max(0, Len(vp.lines) - vp.Height)

AtTop(vp) == vp.YOffset <= 0

AtBottom(vp) == vp.YOffset >= maxYOffset(vp)

SetYOffset(vp, n) == [vp EXCEPT !.YOffset = Max(0, Min(n, maxYOffset(vp)))]

VpGotoBottom(vp) == SetYOffset(vp, maxYOffset(vp))

VpGotoTop(vp) == IF AtTop(vp) THEN vp ELSE SetYOffset(vp, 0)

LineDown(vp, n) ==
  IF AtBottom(vp) \/ n = 0 \/ Len(vp.lines) = 0 THEN vp
  ELSE SetYOffset(vp, vp.YOffset + n)

LineUp(vp, n) ==
  IF AtTop(vp) \/ n = 0 \/ Len(vp.lines) = 0 THEN vp
  ELSE SetYOffset(vp, vp.YOffset - n)

ViewDown(vp) == IF AtBottom(vp) THEN vp ELSE LineDown(vp, vp.Height)

ViewUp(vp) == IF AtTop(vp) THEN vp ELSE LineUp(vp, vp.Height)

HalfViewDown(vp) == IF AtBottom(vp) THEN vp ELSE LineDown(vp, vp.Height \div 2)

HalfViewUp(vp) == IF AtTop(vp) THEN vp ELSE LineUp(vp, vp.Height \div 2)

\* strings.Join(lines, "\n") followed by the viewport's strings.Split:
\* an empty buffer becomes one empty line.
JoinSplit(lines) == IF lines = <<>> THEN <<0>> ELSE lines

SetContent(vp, lines) ==
  LET v == [vp EXCEPT !.lines = JoinSplit(lines)]
  IN  IF v.YOffset > Len(v.lines) - 1 THEN VpGotoBottom(v) ELSE v

\* viewport.Update for a key message: the default key map
VpUpdate(vp, k) ==
  IF ~vp.keys THEN vp
  ELSE CASE k \in {"pgdown", "f"} -> ViewDown(vp)
         [] k \in {"pgup", "b"}   -> ViewUp(vp)
         [] k = "d"               -> HalfViewDown(vp)
         [] k = "u"               -> HalfViewUp(vp)
         [] k = "j"               -> LineDown(vp, 1)
         [] k = "k"               -> LineUp(vp, 1)
         [] OTHER                 -> vp

\* ------------------------------------------------------- ui.LogViewModel
NewLogViewModel ==
  [viewport |-> ZeroViewport, lines |-> <<>>, maxLines |-> DefaultMaxLines,
   contentDirty |-> FALSE, state |-> "Idle", follow |-> TRUE,
   pod |-> "", container |-> "", namespace |-> "", errorMsg |-> "",
   height |-> 0, ready |-> FALSE]

updateViewportContent(lv) ==
  IF ~lv.ready THEN lv
  ELSE LET v1 == SetContent(lv.viewport, lv.lines)
           v2 == IF lv.follow THEN VpGotoBottom(v1) ELSE v1
       IN  [lv EXCEPT !.viewport = v2, !.contentDirty = FALSE]

SetSize(lv, height) ==
  LET viewportHeight == IF height - 4 < 1 THEN 1 ELSE height - 4
      vp == IF ~lv.ready THEN NewViewport(viewportHeight)
            ELSE [lv.viewport EXCEPT !.Height = viewportHeight]
  IN  updateViewportContent(
        [lv EXCEPT !.height = height, !.viewport = vp, !.ready = TRUE])

SetPodInfo(lv, namespace, pod, container) ==
  [lv EXCEPT !.namespace = namespace, !.pod = pod, !.container = container]

SetState(lv, state) == [lv EXCEPT !.state = state]

SetError(lv, err) == [lv EXCEPT !.errorMsg = err, !.state = "Error"]

ToggleFollow(lv) ==
  LET f == ~lv.follow
  IN  [lv EXCEPT !.follow = f,
                 !.viewport = IF f THEN VpGotoBottom(@) ELSE @]

\* AddLine as it would be if it dropped one line per overflow
AddLineTrimmingOne(lv, line) ==
  LET appended == Append(lv.lines, line)
      kept == IF Len(appended) > lv.maxLines THEN Tail(appended) ELSE appended
  IN  [lv EXCEPT !.lines = kept, !.contentDirty = TRUE]

AddLine(lv, line) ==
  LET appended == Append(lv.lines, line)
      trimCount == lv.maxLines \div 10
      kept == IF Len(appended) > lv.maxLines
              THEN SubSeq(appended, trimCount + 1, Len(appended))
              ELSE appended
  IN  [lv EXCEPT !.lines = kept, !.contentDirty = TRUE]

Clear(lv) ==
  updateViewportContent([lv EXCEPT !.lines = <<>>, !.contentDirty = TRUE])

\* LogViewModel.Update for a key message
LogViewUpdate(lv, k) ==
  CASE k = "g" -> [lv EXCEPT !.viewport = VpGotoTop(@), !.follow = FALSE]
    [] k = "G" -> [lv EXCEPT !.viewport = VpGotoBottom(@), !.follow = TRUE]
    [] OTHER ->
         LET l1 == IF lv.contentDirty THEN updateViewportContent(lv) ELSE lv
             vp == VpUpdate(l1.viewport, k)
         IN  [l1 EXCEPT !.viewport = vp,
                        !.follow = IF ~AtBottom(vp) THEN FALSE ELSE @]

ScrollUp(lv, n) ==
  [lv EXCEPT !.follow = FALSE, !.viewport = LineUp(@, n)]

ScrollDown(lv, n) ==
  LET vp == LineDown(lv.viewport, n)
  IN  [lv EXCEPT !.viewport = vp, !.follow = IF AtBottom(vp) THEN TRUE ELSE @]

PageUp(lv) == [lv EXCEPT !.follow = FALSE, !.viewport = ViewUp(@)]

PageDown(lv) ==
  LET vp == ViewDown(lv.viewport)
  IN  [lv EXCEPT !.viewport = vp, !.follow = IF AtBottom(vp) THEN TRUE ELSE @]

GotoTop(lv) == [lv EXCEPT !.follow = FALSE, !.viewport = VpGotoTop(@)]

GotoBottom(lv) == [lv EXCEPT !.follow = TRUE, !.viewport = VpGotoBottom(@)]

\* ------------------------------------------------------- model.ViewState
Views == {"PodList", "Logs", "Exec", "Files",
          "NamespaceSelector", "ContextSelector", "Help"}

IsOverlay(v) == v \in {"NamespaceSelector", "ContextSelector", "Help"}

\* ------------------------------------------------------------- app.Model
Cmd(type, arg, err) == [type |-> type, arg |-> arg, err |-> err]

Msg(type, arg, err, list) ==
  [type |-> type, arg |-> arg, err |-> err, list |-> list]

New ==
  [view |-> "PodList", prevView |-> "PodList", showHelp |-> FALSE,
   height |-> 0, ready |-> FALSE,
   k8sClient |-> FALSE, k8sErr |-> "",
   pods |-> <<>>, namespaces |-> <<>>, contexts |-> <<>>,
   loadingK8s |-> TRUE, loadingPods |-> FALSE, loadingNamespaces |-> FALSE,
   selectedPodIndex |-> 0, selectedNamespaceIndex |-> 0,
   selectedContextIndex |-> 0,
   logView |-> NewLogViewModel,
   logCancel |-> 0, logChan |-> 0, logStreamActive |-> FALSE,
   selectedContainer |-> ""]

\* The result of one transition: the new Model, the client as the handler
\* left it, the commands returned, the contexts cancelled, whether a new
\* context was created, and how the handler ended.
Out(mm, cl, cs) ==
  [m |-> mm, client |-> cl, cmds |-> cs, cancel |-> {}, created |-> FALSE,
   exit |-> "running"]

NoCmd == EmptyBag

One(c) == SetToBag({c})

HasClient(mm) == IF mm.k8sClient THEN 1 ELSE 0

loadPodsCmd(mm) == Cmd("loadPods", HasClient(mm), "")

loadNamespacesCmd(mm) == Cmd("loadNamespaces", HasClient(mm), "")

loadContextsCmd(mm) == Cmd("loadContexts", HasClient(mm), "")

\* stopLogStream as it would be if it kept the stored channel
stopLogStreamKeepingChan(mm) ==
  [m |-> [mm EXCEPT !.logCancel = 0,
                    !.logStreamActive = FALSE,
                    !.logView = SetState(@, "Ended")],
   cancel |-> IF mm.logCancel # 0 THEN {mm.logCancel} ELSE {}]

\* A stop that cancels the context but keeps the handle in the Model
stopLogStreamKeepingHandle(mm) ==
  [m |-> [mm EXCEPT !.logChan = 0, !.logStreamActive = FALSE,
                    !.logView = SetState(@, "Ended")],
   cancel |-> IF mm.logCancel # 0 THEN {mm.logCancel} ELSE {}]

stopLogStream(mm) ==
  [m |-> [mm EXCEPT !.logCancel = 0, !.logChan = 0,
                    !.logStreamActive = FALSE,
                    !.logView = SetState(@, "Ended")],
   cancel |-> IF mm.logCancel # 0 THEN {mm.logCancel} ELSE {}]

\* nid is the identity of the context that context.WithCancel would create
initLogStream(mm, cl, nid) ==
  IF ~mm.k8sClient
  THEN Out(mm, cl, One(Cmd("logStreamError", 0, "k8s client not initialized")))
  ELSE IF mm.selectedPodIndex >= Len(mm.pods)
  THEN Out(mm, cl, One(Cmd("logStreamError", 0, "no pod selected")))
  ELSE
    LET pod == mm.pods[mm.selectedPodIndex + 1]
        st == stopLogStream(mm)
        container == IF st.m.selectedContainer = "" /\ Len(pod.containers) > 0
                     THEN pod.containers[1] ELSE st.m.selectedContainer
        lv == SetState(SetPodInfo(Clear(st.m.logView),
                                  pod.namespace, pod.name, container),
                       "Streaming")
        m2 == [st.m EXCEPT !.logView = lv, !.selectedContainer = container,
                           !.logCancel = nid, !.logStreamActive = TRUE]
    IN  [Out(m2, cl, One(Cmd("openLogStream", nid, "")))
           EXCEPT !.cancel = st.cancel, !.created = TRUE]

waitForNextLogLine(logChan) ==
  IF logChan = 0 THEN NoCmd ELSE One(Cmd("waitForNextLogLine", logChan, ""))

\* The index of the first entry flagged current, or the old index
RECURSIVE FirstCurrent(_, _, _)
FirstCurrent(list, i, old) ==
  IF i > Len(list) THEN old
  ELSE IF list[i].isCurrent THEN i - 1
  ELSE FirstCurrent(list, i + 1, old)

\* A handler that applies only the result of the first load in flight
podsLoadedOnce(mm, cl, msg) ==
  IF ~mm.loadingPods THEN Out(mm, cl, NoCmd)
  ELSE IF msg.err # ""
  THEN Out([mm EXCEPT !.loadingPods = FALSE, !.k8sErr = msg.err], cl, NoCmd)
  ELSE Out([mm EXCEPT !.loadingPods = FALSE, !.pods = msg.list,
                      !.k8sErr = ""], cl, NoCmd)

\* A handler that empties the pod list when the load failed
podsLoadedDroppingList(mm, cl, msg) ==
  IF msg.err # ""
  THEN Out([mm EXCEPT !.loadingPods = FALSE, !.pods = <<>>,
                      !.k8sErr = msg.err], cl, NoCmd)
  ELSE Out([mm EXCEPT !.loadingPods = FALSE, !.pods = msg.list,
                      !.k8sErr = ""], cl, NoCmd)

\* case podsLoadedMsg
podsLoaded(mm, cl, msg) ==
  IF msg.err # ""
  THEN Out([mm EXCEPT !.loadingPods = FALSE, !.k8sErr = msg.err], cl, NoCmd)
  ELSE Out([mm EXCEPT !.loadingPods = FALSE, !.pods = msg.list,
                      !.k8sErr = ""], cl, NoCmd)

\* case namespacesLoadedMsg
namespacesLoaded(mm, cl, msg) ==
  IF msg.err # ""
  THEN Out([mm EXCEPT !.loadingNamespaces = FALSE, !.k8sErr = msg.err],
           cl, NoCmd)
  ELSE Out([mm EXCEPT !.loadingNamespaces = FALSE,
                      !.namespaces = msg.list,
                      !.selectedNamespaceIndex =
                         FirstCurrent(msg.list, 1, @)], cl, NoCmd)

\* case contextsLoadedMsg
contextsLoaded(mm, cl, msg) ==
  IF msg.err # ""
  THEN Out([mm EXCEPT !.k8sErr = msg.err], cl, NoCmd)
  ELSE Out([mm EXCEPT !.contexts = msg.list,
                      !.selectedContextIndex =
                         FirstCurrent(msg.list, 1, @)], cl, NoCmd)

\* case logStreamErrorMsg
logStreamError(mm, cl, msg) ==
  Out([mm EXCEPT !.logView = SetError(@, msg.err),
                 !.logStreamActive = FALSE], cl, NoCmd)

\* A handler that treats the end of the stream as a failure
logStreamEndedAsError(mm, cl) ==
  Out([mm EXCEPT !.logView = SetError(@, "stream ended"),
                 !.logStreamActive = FALSE], cl, NoCmd)

\* case logStreamEndedMsg
logStreamEnded(mm, cl) ==
  Out([mm EXCEPT !.logView = SetState(@, "Ended"),
                 !.logStreamActive = FALSE], cl, NoCmd)

\* Model.Update for the result messages and the window size
UpdateMsg(mm, cl, msg) ==
  CASE msg.type = "WindowSizeMsg" ->
         Out([mm EXCEPT !.height = msg.arg,
                        !.logView = SetSize(@, msg.arg - 4),
                        !.ready = TRUE], cl, NoCmd)
    [] msg.type = "k8sClientReadyMsg" ->
         IF msg.err # ""
         THEN Out([mm EXCEPT !.loadingK8s = FALSE, !.k8sErr = msg.err],
                  cl, NoCmd)
         ELSE LET m2 == [mm EXCEPT !.loadingK8s = FALSE, !.k8sClient = TRUE,
                                   !.loadingPods = TRUE]
              IN  Out(m2, cl, One(loadPodsCmd(m2)) (+) One(loadContextsCmd(m2)))
    [] msg.type = "podsLoadedMsg" -> podsLoaded(mm, cl, msg)
    [] msg.type = "namespacesLoadedMsg" -> namespacesLoaded(mm, cl, msg)
    [] msg.type = "contextsLoadedMsg" -> contextsLoaded(mm, cl, msg)
    [] msg.type = "logStreamChanMsg" ->
         Out([mm EXCEPT !.logChan = msg.arg,
                        !.logView = SetState(@, "Streaming")],
             cl, waitForNextLogLine(msg.arg))
    [] msg.type = "logLineMsg" ->
         LET m2 == [mm EXCEPT !.logView = AddLine(@, msg.arg)]
         IN  IF m2.logStreamActive /\ m2.view = "Logs" /\ m2.logChan # 0
             THEN Out(m2, cl, waitForNextLogLine(m2.logChan))
             ELSE Out(m2, cl, NoCmd)
    [] msg.type = "logStreamErrorMsg" -> logStreamError(mm, cl, msg)
    [] msg.type = "logStreamEndedMsg" -> logStreamEnded(mm, cl)
    [] OTHER -> Out(mm, cl, NoCmd)

\* A back key that leaves the log view without stopping the stream
handleBackLeavingStream(mm, cl) ==
  IF IsOverlay(mm.view)
  THEN Out([mm EXCEPT !.view = mm.prevView, !.showHelp = FALSE], cl, NoCmd)
  ELSE IF mm.view \in {"Logs", "Exec", "Files"}
  THEN Out([mm EXCEPT !.view = "PodList"], cl, NoCmd)
  ELSE Out(mm, cl, NoCmd)

handleBack(mm, cl) ==
  IF IsOverlay(mm.view)
  THEN Out([mm EXCEPT !.view = mm.prevView, !.showHelp = FALSE], cl, NoCmd)
  ELSE IF mm.view = "Logs"
  THEN LET st == stopLogStream(mm)
       IN  [Out([st.m EXCEPT !.view = "PodList"], cl, NoCmd)
              EXCEPT !.cancel = st.cancel]
  ELSE IF mm.view # "PodList"
  THEN Out([mm EXCEPT !.view = "PodList"], cl, NoCmd)
  ELSE Out(mm, cl, NoCmd)

handlePodListKeys(mm, cl, k, nid) ==
  CASE k = "k" ->
         Out([mm EXCEPT !.selectedPodIndex = IF @ > 0 THEN @ - 1 ELSE @],
             cl, NoCmd)
    [] k = "j" ->
         Out([mm EXCEPT !.selectedPodIndex =
                          IF @ < Len(mm.pods) - 1 THEN @ + 1 ELSE @],
             cl, NoCmd)
    [] k = "l" ->
         IF Len(mm.pods) > 0
         THEN initLogStream([mm EXCEPT !.view = "Logs",
                                       !.selectedContainer = ""], cl, nid)
         ELSE Out(mm, cl, NoCmd)
    [] k = "e" -> Out([mm EXCEPT !.view = "Exec"], cl, NoCmd)
    [] k = "f" -> Out([mm EXCEPT !.view = "Files"], cl, NoCmd)
    [] k = "n" ->
         LET m2 == [mm EXCEPT !.prevView = mm.view,
                              !.view = "NamespaceSelector",
                              !.loadingNamespaces = TRUE]
         IN  Out(m2, cl, One(loadNamespacesCmd(m2)))
    [] k = "c" ->
         LET m2 == [mm EXCEPT !.prevView = mm.view,
                              !.view = "ContextSelector"]
         IN  Out(m2, cl, One(loadContextsCmd(m2)))
    [] k = "r" ->
         LET m2 == [mm EXCEPT !.loadingPods = TRUE]
         IN  Out(m2, cl, One(loadPodsCmd(m2)))
    [] OTHER -> Out(mm, cl, NoCmd)

Panic(mm, cl) == [Out(mm, cl, NoCmd) EXCEPT !.exit = "panic"]

\* A selector that picks the entry under the cursor without looking at the
\* length of the list
handleNamespaceSelectorKeysUnguarded(mm, cl, k) ==
  CASE k = "k" ->
         Out([mm EXCEPT !.selectedNamespaceIndex = IF @ > 0 THEN @ - 1 ELSE @],
             cl, NoCmd)
    [] k = "j" ->
         Out([mm EXCEPT !.selectedNamespaceIndex =
                          IF @ < Len(mm.namespaces) - 1 THEN @ + 1 ELSE @],
             cl, NoCmd)
    [] k = "enter" ->
         IF ~mm.k8sClient \/ mm.selectedNamespaceIndex >= Len(mm.namespaces)
         THEN Panic(mm, cl)
         ELSE LET ns == mm.namespaces[mm.selectedNamespaceIndex + 1]
                  m2 == [mm EXCEPT !.view = mm.prevView,
                                   !.loadingPods = TRUE]
              IN  Out(m2, [cl EXCEPT !.currentNamespace = ns.name],
                      One(loadPodsCmd(m2)))
    [] OTHER -> Out(mm, cl, NoCmd)

handleNamespaceSelectorKeys(mm, cl, k) ==
  CASE k = "k" ->
         Out([mm EXCEPT !.selectedNamespaceIndex = IF @ > 0 THEN @ - 1 ELSE @],
             cl, NoCmd)
    [] k = "j" ->
         Out([mm EXCEPT !.selectedNamespaceIndex =
                          IF @ < Len(mm.namespaces) - 1 THEN @ + 1 ELSE @],
             cl, NoCmd)
    [] k = "enter" ->
         IF mm.selectedNamespaceIndex < Len(mm.namespaces)
         THEN IF ~mm.k8sClient THEN Panic(mm, cl)
              ELSE LET ns == mm.namespaces[mm.selectedNamespaceIndex + 1]
                       m2 == [mm EXCEPT !.view = mm.prevView,
                                        !.loadingPods = TRUE]
                   IN  Out(m2, [cl EXCEPT !.currentNamespace = ns.name],
                           One(loadPodsCmd(m2)))
         ELSE Out(mm, cl, NoCmd)
    [] OTHER -> Out(mm, cl, NoCmd)

\* ---------------------------------------------------- k8s.Client (context)
\* The contexts of the kubeconfig, sorted by name, and the namespace each
\* one declares ("" when unset).
ContextNames == <<"dev", "prod">>

ContextNamespace(name) == IF name = "dev" THEN "" ELSE "prod"

\* The namespaces a cluster usually has, sorted by name
NamespaceNames == <<"default", "prod">>

NewClient == [currentContext |-> "dev", currentNamespace |-> "default"]

ListContexts(cl) ==
  [i \in 1..Len(ContextNames) |->
     [name |-> ContextNames[i],
      namespace |-> IF ContextNamespace(ContextNames[i]) = "" THEN "default"
                    ELSE ContextNamespace(ContextNames[i]),
      isCurrent |-> ContextNames[i] = cl.currentContext]]

\* names: the namespaces the cluster has when it is asked, sorted by name
ListNamespaces(cl, names) ==
  [i \in 1..Len(names) |->
     [name |-> names[i], isCurrent |-> names[i] = cl.currentNamespace]]

\* A switch that records the new context before it builds the client
SwitchContextHalfway(cl, contextName, ok) ==
  IF ~(\E i \in 1..Len(ContextNames) : ContextNames[i] = contextName)
  THEN [client |-> cl, err |-> "context not found"]
  ELSE IF ~ok
  THEN [client |-> [cl EXCEPT !.currentContext = contextName],
        err |-> "failed to build config"]
  ELSE [client |-> [cl EXCEPT !.currentContext = contextName,
                              !.currentNamespace =
                                 IF ContextNamespace(contextName) = ""
                                 THEN "default"
                                 ELSE ContextNamespace(contextName)],
        err |-> ""]

\* ok: whether the REST config and the clientset could be built; client is
\* the client as the call leaves it, which the caller shares
SwitchContext(cl, contextName, ok) ==
  IF ~(\E i \in 1..Len(ContextNames) : ContextNames[i] = contextName)
  THEN [client |-> cl, err |-> "context not found"]
  ELSE IF ~ok
  THEN [client |-> cl, err |-> "failed to build config"]
  ELSE [client |-> [cl EXCEPT !.currentContext = contextName,
                              !.currentNamespace =
                                 IF ContextNamespace(contextName) = ""
                                 THEN "default"
                                 ELSE ContextNamespace(contextName)],
        err |-> ""]

handleContextSelectorKeys(mm, cl, k, ok) ==
  CASE k = "k" ->
         Out([mm EXCEPT !.selectedContextIndex = IF @ > 0 THEN @ - 1 ELSE @],
             cl, NoCmd)
    [] k = "j" ->
         Out([mm EXCEPT !.selectedContextIndex =
                          IF @ < Len(mm.contexts) - 1 THEN @ + 1 ELSE @],
             cl, NoCmd)
    [] k = "enter" ->
         IF mm.selectedContextIndex < Len(mm.contexts)
         THEN IF ~mm.k8sClient THEN Panic(mm, cl)
              ELSE LET ctx == mm.contexts[mm.selectedContextIndex + 1]
                       sw == SwitchContext(cl, ctx.name, ok)
                       m2 == [mm EXCEPT !.view = mm.prevView,
                                        !.loadingPods = TRUE]
                   IN  IF sw.err # ""
                       THEN Out([mm EXCEPT !.k8sErr = sw.err], sw.client,
                                NoCmd)
                       ELSE Out(m2, sw.client,
                                One(loadPodsCmd(m2)) (+) One(loadContextsCmd(m2)))
         ELSE Out(mm, cl, NoCmd)
    [] OTHER -> Out(mm, cl, NoCmd)

handleLogViewKeys(mm, cl, k) ==
  CASE k = "j"      -> Out([mm EXCEPT !.logView = ScrollDown(@, 1)], cl, NoCmd)
    [] k = "k"      -> Out([mm EXCEPT !.logView = ScrollUp(@, 1)], cl, NoCmd)
    [] k = "g"      -> Out([mm EXCEPT !.logView = GotoTop(@)], cl, NoCmd)
    [] k = "G"      -> Out([mm EXCEPT !.logView = GotoBottom(@)], cl, NoCmd)
    [] k = "f"      -> Out([mm EXCEPT !.logView = ToggleFollow(@)], cl, NoCmd)
    [] k = "pgdown" -> Out([mm EXCEPT !.logView = PageDown(@)], cl, NoCmd)
    [] k = "pgup"   -> Out([mm EXCEPT !.logView = PageUp(@)], cl, NoCmd)
    [] OTHER        -> Out([mm EXCEPT !.logView = LogViewUpdate(@, k)],
                           cl, NoCmd)

\* The help key as it would be if it did not remember the screen
handleHelpKeyForgetting(mm) ==
  IF ~mm.showHelp
  THEN [mm EXCEPT !.showHelp = TRUE, !.view = "Help"]
  ELSE [mm EXCEPT !.showHelp = FALSE, !.view = mm.prevView]

\* The help key: toggles the overlay
handleHelpKey(mm) ==
  IF ~mm.showHelp
  THEN [mm EXCEPT !.showHelp = TRUE, !.prevView = mm.view, !.view = "Help"]
  ELSE [mm EXCEPT !.showHelp = FALSE, !.view = mm.prevView]

handleKeyPress(mm, cl, k, nid, ok) ==
  CASE k = "q"   -> [Out(mm, cl, NoCmd) EXCEPT !.exit = "quit"]
    [] k = "?"   -> Out(handleHelpKey(mm), cl, NoCmd)
    [] k = "esc" -> handleBack(mm, cl)
    [] OTHER ->
         CASE mm.view = "PodList" -> handlePodListKeys(mm, cl, k, nid)
           [] mm.view = "Logs" -> handleLogViewKeys(mm, cl, k)
           [] mm.view = "NamespaceSelector" ->
                handleNamespaceSelectorKeys(mm, cl, k)
           [] mm.view = "ContextSelector" ->
                handleContextSelectorKeys(mm, cl, k, ok)
           [] mm.view = "Help" ->
                Out([mm EXCEPT !.showHelp = FALSE, !.view = mm.prevView],
                    cl, NoCmd)
           [] OTHER -> Out(mm, cl, NoCmd)

\* Keys, one per binding: k/up, j/down, pgdown/space, q/ctrl+c, f/F, d/ctrl+d,
\* u/ctrl+u; "x" is a key no binding names.
Keys == {"q", "?", "esc", "k", "j", "enter", "l", "e", "f", "r", "n", "c",
         "g", "G", "pgdown", "pgup", "d", "u", "b", "x"}

\* Terminal heights of a resize; the log viewport gets height - 8
WindowHeights == {9, 10}

\* --------------------------------------------------- k8s.Client.StreamLogs
\* One record per context created by initLogStream.  pc is the position of
\* the reader goroutine: "none" before StreamLogs started it, "select" at
\* the top of the loop, "read" inside ReadString, "send" and "sendLast" at a
\* channel send (the latter followed by return), "done" after close(logChan).
ErrLine == -1

NewStream(budget) ==
  [cancelled |-> FALSE, pc |-> "none", pending |-> 0, queue |-> <<>>,
   closed |-> FALSE, produced |-> 0, budget |-> budget]

LineOf(s, i) == s * LineBase + i

\* The pods of a list call's result: names is the sequence of pod names
PodList(names, ns) ==
  [i \in 1..Len(names) |->
     [name |-> names[i], namespace |-> ns, containers |-> <<"main">>]]

\* ------------------------------------------------------------ event loop
InFlight == BagCardinality(cmds) + BagCardinality(msgs)

\* The contexts after a transition: those cancelled by it are done, and the
\* one it created is appended.
StreamsAfter(res, budget) ==
  LET old == [i \in 1..Len(streams) |->
                [streams[i] EXCEPT !.cancelled = @ \/ i \in res.cancel]]
  IN  IF res.created THEN Append(old, NewStream(budget)) ELSE old

\* The key opens an overlay over the current screen
Opens(mm, k) ==
  \/ k = "?" /\ ~mm.showHelp
  \/ mm.view = "PodList" /\ k \in {"n", "c"}

\* The key dismisses the overlay that is the current screen
Closes(mm, k, ok) ==
  \/ k = "esc" /\ IsOverlay(mm.view)
  \/ k = "?" /\ mm.showHelp
  \/ mm.view = "Help" /\ k \notin {"q", "?", "esc"}
  \/ /\ mm.view = "NamespaceSelector" /\ k = "enter" /\ mm.k8sClient
     /\ mm.selectedNamespaceIndex < Len(mm.namespaces)
  \/ /\ mm.view = "ContextSelector" /\ k = "enter" /\ mm.k8sClient /\ ok
     /\ mm.selectedContextIndex < Len(mm.contexts)

BeneathAfter(mm, k, ok) ==
  IF Closes(mm, k, ok) THEN (IF beneath = <<>> THEN <<>> ELSE Tail(beneath))
  ELSE IF Opens(mm, k) THEN <<mm.view>> \o beneath
  ELSE beneath

\* Whether building the new client succeeds matters to one key only
SwitchOutcomes(mm, k) ==
  IF mm.view = "ContextSelector" /\ k = "enter" THEN BOOLEAN ELSE {TRUE}

\* A key press is read and handled by Update; budget is the number of
\* lines the source of a stream opened by this key can produce, maxStreams
\* the number of streams a run opens, maxInFlight the number of operations
\* and results on their way at a time.
\* ok: the outcome of building the client of a picked context
KeyOutcome(k, ok, budget, maxStreams, maxInFlight) ==
  /\ exit = "running"
  /\ LET res == handleKeyPress(m, client, k, Len(streams) + 1, ok)
     IN  /\ res.created => Len(streams) < maxStreams
         /\ res.cmds # EmptyBag =>
              InFlight + BagCardinality(res.cmds) <= maxInFlight
         /\ m' = res.m
         /\ client' = res.client
         /\ cmds' = cmds (+) res.cmds
         /\ streams' = StreamsAfter(res, budget)
         /\ exit' = res.exit
         /\ beneath' = BeneathAfter(m, k, ok)
  /\ UNCHANGED msgs

KeyWithin(k, budget, maxStreams, maxInFlight) ==
  \E ok \in SwitchOutcomes(m, k) :
    KeyOutcome(k, ok, budget, maxStreams, maxInFlight)

Key(k, budget, maxStreams) == KeyWithin(k, budget, maxStreams, MaxInFlight)

\* The terminal is resized
Resize(h) ==
  /\ exit = "running"
  /\ LET res == UpdateMsg(m, client, Msg("WindowSizeMsg", h, "", <<>>))
     IN  m' = res.m
  /\ UNCHANGED <<client, streams, cmds, msgs, exit, beneath>>

\* A result message is taken from the program's message channel
Deliver(msg) ==
  /\ exit = "running"
  /\ BagIn(msg, msgs)
  /\ LET res == UpdateMsg(m, client, msg)
     IN  /\ m' = res.m
         /\ cmds' = cmds (+) res.cmds
  /\ msgs' = msgs (-) One(msg)
  /\ UNCHANGED <<client, streams, exit, beneath>>

\* A command finishes and its message is sent to the event loop
Finish(c, msg) ==
  /\ exit = "running"
  /\ BagIn(c, cmds)
  /\ cmds' = cmds (-) One(c)
  /\ msgs' = msgs (+) One(msg)
  /\ UNCHANGED <<m, exit, beneath>>

\* In the commands below errs is the set of errors the collaborator call
\* can fail with, "" standing for success.
RunInitK8sClient(c, errs) ==
  /\ c.type = "initK8sClient"
  /\ \E err \in errs : Finish(c, Msg("k8sClientReadyMsg", 0, err, <<>>))
  /\ UNCHANGED <<client, streams>>

RunLoadPods(c, errs, lists) ==
  /\ c.type = "loadPods"
  /\ IF c.arg = 0
     THEN Finish(c, Msg("podsLoadedMsg", 0, "k8s client not initialized", <<>>))
     ELSE \E err \in errs :
            IF err # ""
            THEN Finish(c, Msg("podsLoadedMsg", 0, err, <<>>))
            ELSE \E names \in lists :
                   Finish(c, Msg("podsLoadedMsg", 0, "",
                                 PodList(names, client.currentNamespace)))
  /\ UNCHANGED <<client, streams>>

RunLoadNamespaces(c, errs, lists) ==
  /\ c.type = "loadNamespaces"
  /\ IF c.arg = 0
     THEN Finish(c, Msg("namespacesLoadedMsg", 0,
                        "k8s client not initialized", <<>>))
     ELSE \E err \in errs :
            IF err # ""
            THEN Finish(c, Msg("namespacesLoadedMsg", 0, err, <<>>))
            ELSE \E names \in lists :
                   Finish(c, Msg("namespacesLoadedMsg", 0, "",
                                 ListNamespaces(client, names)))
  /\ UNCHANGED <<client, streams>>

RunLoadContexts(c) ==
  /\ c.type = "loadContexts"
  /\ IF c.arg = 0
     THEN Finish(c, Msg("contextsLoadedMsg", 0,
                        "k8s client not initialized", <<>>))
     ELSE Finish(c, Msg("contextsLoadedMsg", 0, "", ListContexts(client)))
  /\ UNCHANGED <<client, streams>>

\* The closure returned by initLogStream: client.StreamLogs(ctx, opts)
RunOpenLogStream(c, errs) ==
  /\ c.type = "openLogStream"
  /\ \E err \in errs :
       IF err # ""
       THEN /\ Finish(c, Msg("logStreamErrorMsg", 0, err, <<>>))
            /\ UNCHANGED streams
       ELSE /\ Finish(c, Msg("logStreamChanMsg", c.arg, "", <<>>))
            /\ streams' = [streams EXCEPT ![c.arg].pc = "select"]
  /\ UNCHANGED client

RunLogStreamError(c) ==
  /\ c.type = "logStreamError"
  /\ Finish(c, Msg("logStreamErrorMsg", 0, c.err, <<>>))
  /\ UNCHANGED <<client, streams>>

\* The closure returned by waitForNextLogLine: line, ok := <-logChan
RunWaitForNextLogLine(c) ==
  /\ c.type = "waitForNextLogLine"
  /\ LET st == streams[c.arg]
     IN  IF st.queue # <<>>
         THEN /\ streams' = [streams EXCEPT ![c.arg].queue = Tail(@)]
              /\ IF Head(st.queue) = ErrLine
                 THEN Finish(c, Msg("logStreamErrorMsg", 0,
                                    "error reading log stream", <<>>))
                 ELSE Finish(c, Msg("logLineMsg", Head(st.queue), "", <<>>))
         ELSE /\ st.closed
              /\ Finish(c, Msg("logStreamEndedMsg", 0, "", <<>>))
              /\ UNCHANGED streams
  /\ UNCHANGED client

\* ------------------------------------------- the reader goroutine (logs.go)
ReaderStep(s, st) ==
  /\ exit = "running"
  /\ streams' = [streams EXCEPT ![s] = st]
  /\ UNCHANGED <<m, client, cmds, msgs, exit, beneath>>

Returned(st) == [st EXCEPT !.pc = "done", !.closed = TRUE]

\* select { case <-ctx.Done(): return; default: ... }
ReaderSelect(s) ==
  /\ streams[s].pc = "select"
  /\ IF streams[s].cancelled
     THEN ReaderStep(s, Returned(streams[s]))
     ELSE ReaderStep(s, [streams[s] EXCEPT !.pc = "read"])

\* reader.ReadString returns a line
ReaderReadLine(s) ==
  /\ streams[s].pc = "read"
  /\ streams[s].produced < streams[s].budget
  /\ ReaderStep(s, [streams[s] EXCEPT !.pc = "send",
                                      !.produced = @ + 1,
                                      !.pending =
                                         LineOf(s, streams[s].produced + 1)])

\* reader.ReadString returns io.EOF and no text
ReaderReadEOF(s) ==
  /\ streams[s].pc = "read"
  /\ ReaderStep(s, Returned(streams[s]))

\* reader.ReadString returns io.EOF and the text of an unterminated line
ReaderReadLast(s) ==
  /\ streams[s].pc = "read"
  /\ streams[s].produced < streams[s].budget
  /\ ReaderStep(s, [streams[s] EXCEPT !.pc = "sendLast",
                                      !.produced = @ + 1,
                                      !.pending =
                                         LineOf(s, streams[s].produced + 1)])

\* reader.ReadString fails (also what a cancelled context makes it do)
ReaderReadError(s) ==
  /\ streams[s].pc = "read"
  /\ ReaderStep(s, [streams[s] EXCEPT !.pc = "sendLast", !.pending = ErrLine])

\* logChan <- LogLine{...}: blocks while the channel buffer is full
ReaderSend(s) ==
  /\ streams[s].pc \in {"send", "sendLast"}
  /\ Len(streams[s].queue) < ChanCap
  /\ LET st == [streams[s] EXCEPT !.queue = Append(@, streams[s].pending),
                                  !.pending = 0]
     IN  IF streams[s].pc = "send"
         THEN ReaderStep(s, [st EXCEPT !.pc = "select"])
         ELSE ReaderStep(s, Returned(st))

\* ------------------------------------------------------- specifications
Init ==
  /\ m = New
  /\ client = NewClient
  /\ streams = <<>>
  /\ cmds = One(Cmd("initK8sClient", 0, ""))
  /\ msgs = EmptyBag
  /\ exit = "running"
  /\ beneath = <<>>

ConnectErrs == {"", "failed to load kubeconfig"}

ListPodsErrs == {"", "failed to list pods"}

ListNamespacesErrs == {"", "failed to list namespaces"}

OpenStreamErrs == {"", "failed to open log stream"}

PodNames == {<<>>, <<"alpha">>, <<"alpha", "beta">>}

\* The whole program: every key, every collaborator outcome
Next ==
  \/ \E k \in Keys : Key(k, MaxSourceLines, MaxStreams)
  \/ \E h \in WindowHeights : Resize(h)
  \/ \E msg \in BagToSet(msgs) : Deliver(msg)
  \/ \E c \in BagToSet(cmds) : RunInitK8sClient(c, ConnectErrs)
  \/ \E c \in BagToSet(cmds) : RunLoadPods(c, ListPodsErrs, PodNames)
  \/ \E c \in BagToSet(cmds) : RunLoadNamespaces(c, ListNamespacesErrs, {NamespaceNames})
  \/ \E c \in BagToSet(cmds) : RunLoadContexts(c)
  \/ \E c \in BagToSet(cmds) : RunOpenLogStream(c, OpenStreamErrs)
  \/ \E c \in BagToSet(cmds) : RunLogStreamError(c)
  \/ \E c \in BagToSet(cmds) : RunWaitForNextLogLine(c)
  \/ \E s \in 1..Len(streams) : ReaderSelect(s)
  \/ \E s \in 1..Len(streams) : ReaderReadLine(s)
  \/ \E s \in 1..Len(streams) : ReaderReadEOF(s)
  \/ \E s \in 1..Len(streams) : ReaderReadLast(s)
  \/ \E s \in 1..Len(streams) : ReaderReadError(s)
  \/ \E s \in 1..Len(streams) : ReaderSend(s)

Spec == Init /\ [][Next]_vars

\* The log screen: the user opens and leaves the log view of a pod, any
\* number of times.
LogsKeys == {"esc", "l", "?"}

LogsPodNames == {<<"alpha">>}

NextLogs ==
  \/ \E k \in LogsKeys : Key(k, MaxSourceLines, MaxStreams)
  \/ \E msg \in BagToSet(msgs) : Deliver(msg)
  \/ \E c \in BagToSet(cmds) : RunInitK8sClient(c, {""})
  \/ \E c \in BagToSet(cmds) : RunLoadPods(c, {""}, LogsPodNames)
  \/ \E c \in BagToSet(cmds) : RunLoadContexts(c)
  \/ \E c \in BagToSet(cmds) : RunOpenLogStream(c, OpenStreamErrs)
  \/ \E c \in BagToSet(cmds) : RunWaitForNextLogLine(c)
  \/ \E s \in 1..Len(streams) : ReaderSelect(s)
  \/ \E s \in 1..Len(streams) : ReaderReadLine(s)
  \/ \E s \in 1..Len(streams) : ReaderReadEOF(s)
  \/ \E s \in 1..Len(streams) : ReaderReadLast(s)
  \/ \E s \in 1..Len(streams) : ReaderReadError(s)
  \/ \E s \in 1..Len(streams) : ReaderSend(s)

SpecLogs == Init /\ [][NextLogs]_vars

\* The log viewport: the user opens the log view of a pod, resizes the
\* terminal and scrolls while lines arrive.
ScrollKeys == {"l", "j", "k", "g", "G", "f", "pgdown", "pgup",
               "d", "u", "b", "x"}

ScrollHeights == {10}

NextScroll ==
  \/ \E k \in ScrollKeys : Key(k, MaxScrollLines, 1)
  \/ \E h \in ScrollHeights : Resize(h)
  \/ \E msg \in BagToSet(msgs) : Deliver(msg)
  \/ \E c \in BagToSet(cmds) : RunInitK8sClient(c, {""})
  \/ \E c \in BagToSet(cmds) : RunLoadPods(c, {""}, {<<"alpha">>})
  \/ \E c \in BagToSet(cmds) : RunLoadContexts(c)
  \/ \E c \in BagToSet(cmds) : RunOpenLogStream(c, {""})
  \/ \E c \in BagToSet(cmds) : RunWaitForNextLogLine(c)
  \/ \E s \in 1..Len(streams) : ReaderSelect(s)
  \/ \E s \in 1..Len(streams) : ReaderReadLine(s)
  \/ \E s \in 1..Len(streams) : ReaderReadEOF(s)
  \/ \E s \in 1..Len(streams) : ReaderSend(s)

SpecScroll == Init /\ [][NextScroll]_vars

\* The pod list: the user moves the selection, refreshes the list and opens
\* the log view, while list calls succeed or fail.
PodsKeys == {"j", "k", "r", "l", "esc"}

NextPods ==
  \/ \E k \in PodsKeys : Key(k, MaxPodsLines, MaxPodsStreams)
  \/ \E msg \in BagToSet(msgs) : Deliver(msg)
  \/ \E c \in BagToSet(cmds) : RunInitK8sClient(c, ConnectErrs)
  \/ \E c \in BagToSet(cmds) : RunLoadPods(c, ListPodsErrs, PodNames)
  \/ \E c \in BagToSet(cmds) : RunLoadContexts(c)
  \/ \E c \in BagToSet(cmds) : RunOpenLogStream(c, {""})
  \/ \E c \in BagToSet(cmds) : RunLogStreamError(c)
  \/ \E c \in BagToSet(cmds) : RunWaitForNextLogLine(c)
  \/ \E s \in 1..Len(streams) : ReaderSelect(s)
  \/ \E s \in 1..Len(streams) : ReaderReadLine(s)
  \/ \E s \in 1..Len(streams) : ReaderReadEOF(s)
  \/ \E s \in 1..Len(streams) : ReaderSend(s)

SpecPods == Init /\ [][NextPods]_vars

\* Navigation: the user moves between the screens and the overlays and
\* picks namespaces and contexts; log sources stay silent.
NavKeys == {"q", "?", "esc", "l", "e", "f", "n", "c", "enter", "x"}

NextNav ==
  \/ \E k \in NavKeys : Key(k, 0, MaxNavStreams)
  \/ \E msg \in BagToSet(msgs) : Deliver(msg)
  \/ \E c \in BagToSet(cmds) : RunInitK8sClient(c, {""})
  \/ \E c \in BagToSet(cmds) : RunLoadPods(c, {""}, {<<"alpha">>})
  \/ \E c \in BagToSet(cmds) : RunLoadNamespaces(c, {""}, {NamespaceNames})
  \/ \E c \in BagToSet(cmds) : RunLoadContexts(c)
  \/ \E c \in BagToSet(cmds) : RunOpenLogStream(c, OpenStreamErrs)
  \/ \E c \in BagToSet(cmds) : RunWaitForNextLogLine(c)
  \/ \E s \in 1..Len(streams) : ReaderSelect(s)
  \/ \E s \in 1..Len(streams) : ReaderReadEOF(s)

SpecNav == Init /\ [][NextNav]_vars

\* The Model once the client is ready and the lists are loaded
Connected ==
  LET m1 == UpdateMsg(New, NewClient,
                      Msg("k8sClientReadyMsg", 0, "", <<>>)).m
      m2 == UpdateMsg(m1, NewClient,
                      Msg("podsLoadedMsg", 0, "",
                          PodList(<<"alpha">>, "default"))).m
  IN  UpdateMsg(m2, NewClient,
                Msg("contextsLoadedMsg", 0, "", ListContexts(NewClient))).m

\* ... and once the log key was pressed and the channel of stream 1 arrived
Streaming ==
  LET m1 == handleKeyPress(Connected, NewClient, "l", 1, TRUE).m
  IN  UpdateMsg(m1, NewClient, Msg("logStreamChanMsg", 1, "", <<>>)).m

\* The help overlay: the client is connected and the lists are loaded; the
\* user moves between the screens and asks for help on each of them.
InitHelp ==
  /\ m = Connected
  /\ client = NewClient
  /\ streams = <<>>
  /\ cmds = EmptyBag
  /\ msgs = EmptyBag
  /\ exit = "running"
  /\ beneath = <<>>

NextHelp ==
  \/ \E k \in NavKeys : KeyWithin(k, 0, MaxNavStreams, MaxHelpInFlight)
  \/ \E msg \in BagToSet(msgs) : Deliver(msg)
  \/ \E c \in BagToSet(cmds) : RunLoadPods(c, {""}, {<<"alpha">>})
  \/ \E c \in BagToSet(cmds) : RunLoadNamespaces(c, {""}, {NamespaceNames})
  \/ \E c \in BagToSet(cmds) : RunLoadContexts(c)
  \/ \E c \in BagToSet(cmds) : RunOpenLogStream(c, {""})
  \/ \E c \in BagToSet(cmds) : RunWaitForNextLogLine(c)
  \/ \E s \in 1..Len(streams) : ReaderSelect(s)
  \/ \E s \in 1..Len(streams) : ReaderReadEOF(s)

SpecHelp == InitHelp /\ [][NextHelp]_vars

\* One busy stream: the log view of a pod is open, its source has already
\* filled most of the line channel, and the user asks for help or leaves.
InitStream ==
  /\ m = Streaming
  /\ client = NewClient
  /\ streams = <<[NewStream(MaxStreamLines) EXCEPT
                    !.pc = "select",
                    !.produced = ChanCap - 2,
                    !.queue = [i \in 1..(ChanCap - 2) |-> LineOf(1, i)]]>>
  /\ cmds = waitForNextLogLine(1)
  /\ msgs = EmptyBag
  /\ exit = "running"
  /\ beneath = <<>>

StreamKeys == {"esc", "?"}

NextStream ==
  \/ \E k \in StreamKeys : Key(k, MaxStreamLines, 1)
  \/ \E msg \in BagToSet(msgs) : Deliver(msg)
  \/ \E c \in BagToSet(cmds) : RunWaitForNextLogLine(c)
  \/ ReaderSelect(1)
  \/ ReaderReadLine(1)
  \/ ReaderReadEOF(1)
  \/ ReaderReadLast(1)
  \/ ReaderReadError(1)
  \/ ReaderSend(1)

\* The Go scheduler runs every goroutine that can run, and the event loop
\* takes every message sent to it; nothing makes the user press a key.
FairStream ==
  /\ WF_vars(\E msg \in BagToSet(msgs) : Deliver(msg))
  /\ WF_vars(\E c \in BagToSet(cmds) : RunWaitForNextLogLine(c))
  /\ WF_vars(ReaderSelect(1) \/ ReaderReadLine(1) \/ ReaderReadEOF(1)
               \/ ReaderReadLast(1) \/ ReaderReadError(1) \/ ReaderSend(1))

SpecStream == InitStream /\ [][NextStream]_vars /\ FairStream

\* The log buffer alone, filled as the unit test fills it: a view whose
\* capacity the test lowered, and the default view a few lines below capacity.
InitTrim ==
  /\ \E cap \in {TestMaxLines, DefaultMaxLines} :
       m = [New EXCEPT !.logView.maxLines = cap,
                       !.logView.lines =
                         [i \in 1..(cap - TrimHeadroom) |-> i]]
  /\ client = NewClient
  /\ streams = <<>>
  /\ cmds = EmptyBag
  /\ msgs = EmptyBag
  /\ exit = "running"
  /\ beneath = <<>>

NextLine(lv) == IF lv.lines = <<>> THEN 1 ELSE lv.lines[Len(lv.lines)] + 1

\* m.AddLine(line), line after line
UnitAddLine ==
  /\ NextLine(m.logView)
       <= m.logView.maxLines + m.logView.maxLines \div 10 + TrimHeadroom
  /\ m' = [m EXCEPT !.logView = AddLine(@, NextLine(m.logView))]
  /\ UNCHANGED <<client, streams, cmds, msgs, exit, beneath>>

SpecTrim == InitTrim /\ [][UnitAddLine]_vars

\* ------------------------------------------------------------------ claims

\* The list loads: the user refreshes the pod list and opens the selectors,
\* before and after the client is ready, while the list calls succeed or
\* fail and the cluster gains and loses pods.
LoadsKeys == {"r", "n", "c", "j", "esc"}

LoadsPodNames == {<<"alpha">>, <<"alpha", "beta">>}

NextLoads ==
  \/ \E k \in LoadsKeys : KeyWithin(k, 0, 0, MaxLoadsInFlight)
  \/ \E msg \in BagToSet(msgs) : Deliver(msg)
  \/ \E c \in BagToSet(cmds) : RunInitK8sClient(c, {""})
  \/ \E c \in BagToSet(cmds) : RunLoadPods(c, ListPodsErrs, LoadsPodNames)
  \/ \E c \in BagToSet(cmds) :
       RunLoadNamespaces(c, ListNamespacesErrs, {NamespaceNames})
  \/ \E c \in BagToSet(cmds) : RunLoadContexts(c)

SpecLoads == Init /\ [][NextLoads]_vars

\* The selectors: the client is connected and the lists are loaded; the user
\* opens the namespace and context selectors, asks for help, moves the
\* selection and picks entries, while namespaces come and go and building
\* the client of the picked context succeeds or fails.
SelectKeys == {"n", "c", "j", "enter", "esc", "?"}

SelectNamespaceNames == {<<"default">>, NamespaceNames}

NextSelect ==
  \/ \E k \in SelectKeys : KeyWithin(k, 0, 0, MaxSelectInFlight)
  \/ \E msg \in BagToSet(msgs) : Deliver(msg)
  \/ \E c \in BagToSet(cmds) : RunLoadPods(c, {""}, {<<"alpha">>})
  \/ \E c \in BagToSet(cmds) :
       RunLoadNamespaces(c, {""}, SelectNamespaceNames)
  \/ \E c \in BagToSet(cmds) : RunLoadContexts(c)

SpecSelect == InitHelp /\ [][NextSelect]_vars

\* Switching context: the client is connected and the lists are loaded; the
\* user opens the context selector, moves the selection and picks a context,
\* and building its client succeeds or fails.
SwitchKeys == {"c", "j", "k", "enter", "esc"}

NextSwitch ==
  \/ \E k \in SwitchKeys : KeyWithin(k, 0, 0, MaxSwitchInFlight)
  \/ \E msg \in BagToSet(msgs) : Deliver(msg)
  \/ \E c \in BagToSet(cmds) : RunLoadPods(c, {""}, {<<"alpha">>})
  \/ \E c \in BagToSet(cmds) : RunLoadContexts(c)

SpecSwitch == InitHelp /\ [][NextSwitch]_vars

\* C1: in the PodList screen the logs key does nothing at all when the pod
\* list is empty, and with a non-empty pod list it switches to Logs and leaves
\* the log line buffer empty, whatever the buffer held before.
C1_LogsKeyClearsBuffer ==
  [][(m.view = "PodList" /\ Key("l", MaxPodsLines, MaxPodsStreams)) =>
       IF Len(m.pods) = 0
       THEN UNCHANGED vars
       ELSE m'.view = "Logs" /\ m'.logView.lines = <<>>]_vars

\* C2: pressing back while the screen is Logs cancels the context of the
\* current stream, leaves the consumer state Ended whatever it was, clears
\* the active flag and the stored channel and shows PodList, in that one
\* transition.
C2_BackStopsStream ==
  [][(m.view = "Logs" /\ Key("esc", MaxStreamLines, 1)) =>
       /\ m'.view = "PodList"
       /\ m'.logView.state = "Ended"
       /\ ~m'.logStreamActive
       /\ m'.logChan = 0
       /\ m.logCancel # 0 => streams'[m.logCancel].cancelled]_vars

\* C2 witness: back was pressed on a log view whose stream had failed: the
\* screen is PodList, the state Ended over the error text, the channel
\* forgotten and the context cancelled.
C2_BackFromErrorSeen ==
  /\ m.view = "PodList"
  /\ m.logView.state = "Ended"
  /\ m.logView.errorMsg # ""
  /\ m.logChan = 0
  /\ ~m.logStreamActive
  /\ streams[1].cancelled
  /\ cmds = EmptyBag
  /\ msgs = EmptyBag

\* C3: whenever the current screen is an overlay, there is a screen beneath
\* it and pressing back shows exactly that screen.
C3_BackRestoresBeneath ==
  IsOverlay(m.view) =>
    /\ beneath # <<>>
    /\ handleBack(m, client).m.view = Head(beneath)

\* C4: from every screen but Help the help key shows Help and remembers the
\* screen it was pressed on, changing nothing else; on Help every key but
\* quit shows the remembered screen again, clears the showing-help flag and
\* changes nothing else, requesting no operation.
C4_HelpToggle ==
  [][\A k \in NavKeys :
       KeyWithin(k, 0, MaxNavStreams, MaxHelpInFlight) =>
         /\ (k = "?" /\ m.view # "Help") =>
              /\ m' = [m EXCEPT !.view = "Help", !.prevView = m.view,
                                !.showHelp = TRUE]
              /\ UNCHANGED <<client, streams, cmds, msgs, exit>>
         /\ (k # "q" /\ m.view = "Help") =>
              /\ m' = [m EXCEPT !.view = m.prevView, !.showHelp = FALSE]
              /\ UNCHANGED <<client, streams, cmds, msgs, exit>>]_vars

\* C4 witness: the help key was pressed on the log screen of a pod
C4_HelpOverLogs ==
  /\ m.view = "Help"
  /\ m.showHelp
  /\ m.prevView = "Logs"
  /\ beneath = <<"Logs">>
  /\ m.logView.pod = "alpha"

\* C5: in the log view, go-to-bottom leaves follow on; line up, page up and
\* go-to-top leave it off; and a downward scroll (line, page or half page,
\* by the view's methods or by the viewport's own key map) that moves the
\* viewport to its last line leaves follow on.
C5_FollowInvariant ==
  [][\A k \in ScrollKeys :
       (m.view = "Logs" /\ Key(k, MaxScrollLines, 1)) =>
         /\ k = "G" => m'.logView.follow
         /\ k \in {"k", "pgup", "g"} => ~m'.logView.follow
         /\ ( /\ k \in {"j", "pgdown", "d"}
              /\ m'.logView.viewport.YOffset > m.logView.viewport.YOffset
              /\ AtBottom(m'.logView.viewport) ) => m'.logView.follow]_vars

\* C6: when Update has handled a log line for a sized log view, the content
\* of the viewport is the line buffer and the content-dirty flag is clear.
C6_EagerContent ==
  [][\A msg \in BagToSet(msgs) :
       (msg.type = "logLineMsg" /\ m.logView.ready /\ Deliver(msg)) =>
         /\ ~m'.logView.contentDirty
         /\ m'.logView.viewport.lines = JoinSplit(m'.logView.lines)]_vars

\* C7: when Update has handled a log line for a sized log view, with follow
\* on the viewport is at the bottom of a content that ends with that line,
\* and with follow off the viewport offset is what it was.
C7_FollowShowsNewest ==
  [][\A msg \in BagToSet(msgs) :
       (msg.type = "logLineMsg" /\ m.logView.ready /\ Deliver(msg)) =>
         LET vp == m'.logView.viewport
         IN  IF m.logView.follow
             THEN /\ AtBottom(vp)
                  /\ vp.lines # <<>>
                  /\ vp.lines[Len(vp.lines)] = msg.arg
             ELSE vp.YOffset = m.logView.viewport.YOffset]_vars

\* C8: after each AddLine the buffer holds at most capacity lines; an append
\* that does not exceed the capacity removes nothing; one that does removes
\* exactly the capacity/10 oldest lines (1000 of 10000) at once; the lines
\* kept are in their order and the appended line is last.
C8_TrimStep ==
  [][UnitAddLine =>
       LET old == m.logView.lines
           new == m'.logView.lines
           cap == m.logView.maxLines
           all == old \o <<NextLine(m.logView)>>
           cut == IF Len(all) > cap THEN cap \div 10 ELSE 0
       IN  /\ Len(new) <= cap
           /\ (cap = DefaultMaxLines /\ Len(all) > cap) => cut = 1000
           /\ Len(new) = Len(all) - cut
           /\ \A i \in 1..Len(new) : new[i] = all[i + cut]
           /\ new[Len(new)] = NextLine(m.logView)]_vars

\* C8 witness: the default buffer just after its first trim: lines 1001 to
\* 10001 are left.
C8_TrimmedOnce ==
  /\ m.logView.maxLines = DefaultMaxLines
  /\ Len(m.logView.lines) = 9001
  /\ m.logView.lines[1] = 1001
  /\ m.logView.lines[9001] = 10001

\* C9: while a stream is the current one, the log buffer is the sequence of
\* the lines its producer put on the channel, in order, none duplicated,
\* skipped or foreign; and no line channel ever holds more than 100 lines.
C9_ProducerOrder ==
  /\ m.logCancel # 0 =>
       /\ Len(m.logView.lines) <= streams[m.logCancel].produced
       /\ \A i \in 1..Len(m.logView.lines) :
            m.logView.lines[i] = LineOf(m.logCancel, i)
  /\ \A s \in 1..Len(streams) : Len(streams[s].queue) <= ChanCap

\* C10: once the context of the stream is cancelled, or its source has
\* ended or failed, the reader goroutine eventually returns and closes the
\* line channel.
C10_ReaderStops ==
  (streams[1].cancelled \/ streams[1].pc = "sendLast") ~> streams[1].closed

\* C11: when a received log line carries an error, the log view goes to
\* Error, the stream is torn down (its cancel handle is invoked and
\* released), no read is scheduled, and while the view shows Error nothing is
\* appended and nothing is started: the state leaves Error only when the user
\* leaves the log screen (esc) or starts a stream (l).
C11_ErrorTearsDown ==
  [][/\ \A msg \in BagToSet(msgs) :
         msg.type = "logStreamErrorMsg" /\ Deliver(msg) =>
           /\ m'.logView.state = "Error"
           /\ ~m'.logStreamActive
           /\ cmds' = cmds
           /\ m'.logCancel = 0
           /\ (m.logCancel # 0 => streams'[m.logCancel].cancelled)
     /\ m.logView.state = "Error" /\ m'.logView.state = "Error" =>
           /\ m'.logView.lines = m.logView.lines
           /\ cmds' = cmds
     /\ m.logView.state = "Error" /\ m'.logView.state # "Error" =>
           \E k \in {"esc", "l"} : Key(k, MaxStreamLines, 1)]_vars

\* C12: when the line channel of a stream is closed and nothing is left on
\* it, the pending read reports the end of the stream and not an error;
\* handling that report sets the log view to Ended, records no error, clears
\* the active flag and schedules no further read.
C12_EndedOnClose ==
  [][/\ \A c \in BagToSet(cmds) :
         RunWaitForNextLogLine(c) /\ streams[c.arg].queue = <<>> =>
           msgs' = msgs (+) One(Msg("logStreamEndedMsg", 0, "", <<>>))
     /\ \A msg \in BagToSet(msgs) :
         msg.type = "logStreamEndedMsg" /\ Deliver(msg) =>
           /\ m'.logView.state = "Ended"
           /\ m'.logView.errorMsg = m.logView.errorMsg
           /\ ~m'.logStreamActive
           /\ cmds' = cmds]_vars

\* The source of the open log view reached its end: the view shows Ended
\* without an error, nothing is in flight, and nobody cancelled the stream.
C12_EndedSeen ==
  /\ m.view = "Logs"
  /\ m.logView.state = "Ended"
  /\ m.logView.errorMsg = ""
  /\ ~m.logStreamActive
  /\ streams[1].closed /\ ~streams[1].cancelled /\ streams[1].queue = <<>>
  /\ cmds = EmptyBag /\ msgs = EmptyBag

NextRetry ==
  \/ \E k \in {"r", "j"} : KeyWithin(k, 0, 0, MaxRetryInFlight)
  \/ \E msg \in BagToSet(msgs) : Deliver(msg)
  \/ \E c \in BagToSet(cmds) : RunInitK8sClient(c, ConnectErrs)
  \/ \E c \in BagToSet(cmds) : RunLoadPods(c, ListPodsErrs, PodNames)
  \/ \E c \in BagToSet(cmds) : RunLoadContexts(c)

\* Every command runs and every result is handled; the user does refresh;
\* and the cluster does not refuse the pod-list call for ever.
FairRetry ==
  /\ WF_vars(KeyWithin("r", 0, 0, MaxRetryInFlight))
  /\ \A type \in {"k8sClientReadyMsg", "podsLoadedMsg", "contextsLoadedMsg"} :
       WF_vars(\E msg \in BagToSet(msgs) : msg.type = type /\ Deliver(msg))
  /\ WF_vars(\E c \in BagToSet(cmds) : RunInitK8sClient(c, ConnectErrs))
  /\ WF_vars(\E c \in BagToSet(cmds) : RunLoadContexts(c))
  /\ SF_vars(\E c \in BagToSet(cmds) : RunLoadPods(c, {""}, PodNames))

SpecRetry == Init /\ [][NextRetry]_vars /\ FairRetry

\* Start-up under both outcomes: the connection attempt succeeds or fails,
\* and the user opens the namespace selector, moves the selection, picks an
\* entry and goes back, with a client or without one, while the pod list and
\* the namespace list shrink and grow between loads.
NextTotal ==
  \/ \E k \in {"n", "j", "enter", "esc"} :
       KeyWithin(k, 0, MaxTotalStreams, MaxTotalInFlight)
  \/ \E msg \in BagToSet(msgs) : Deliver(msg)
  \/ \E c \in BagToSet(cmds) : RunInitK8sClient(c, ConnectErrs)
  \/ \E c \in BagToSet(cmds) :
       RunLoadPods(c, {""}, {<<"alpha">>, <<"alpha", "beta">>})
  \/ \E c \in BagToSet(cmds) :
       RunLoadNamespaces(c, {""}, SelectNamespaceNames)
  \/ \E c \in BagToSet(cmds) : RunLoadContexts(c)

SpecTotal == Init /\ [][NextTotal]_vars

\* The three kinds of list result
LoadKinds == {"podsLoadedMsg", "namespacesLoadedMsg", "contextsLoadedMsg"}

\* C14: handling a failed pod, namespace or context list load sets the
\* last-error field to the failure and leaves the three loaded lists, the
\* current screen and the three selection indices as they were.
C14_FailedLoadKeeps ==
  [][\A msg \in BagToSet(msgs) :
       msg.type \in LoadKinds /\ msg.err # "" /\ Deliver(msg) =>
         /\ m'.k8sErr = msg.err
         /\ m'.pods = m.pods
         /\ m'.namespaces = m.namespaces
         /\ m'.contexts = m.contexts
         /\ m'.view = m.view
         /\ m'.selectedPodIndex = m.selectedPodIndex
         /\ m'.selectedNamespaceIndex = m.selectedNamespaceIndex
         /\ m'.selectedContextIndex = m.selectedContextIndex]_vars

\* A namespace load failed after every list had been loaded and the user had
\* moved the selections off the first entry: the lists and the selections
\* are still there, under the error.
C14_FailureOverLoadedLists ==
  /\ m.k8sErr = "failed to list namespaces"
  /\ Len(m.pods) = 2 /\ m.selectedPodIndex = 1
  /\ Len(m.namespaces) = 2 /\ m.selectedNamespaceIndex = 1
  /\ Len(m.contexts) = 2
  /\ m.view = "NamespaceSelector"
  /\ msgs = EmptyBag /\ cmds = EmptyBag

\* The failures only a load of the kind can report: the failure of a context
\* load is the one every load reports when the client is missing.
KindErrs(type) ==
  CASE type = "podsLoadedMsg" -> {"failed to list pods"}
    [] type = "namespacesLoadedMsg" -> {"failed to list namespaces"}
    [] OTHER -> {}

\* C15: for each kind of load, when the last-error field holds the failure
\* of a load of that kind, handling the next successful load of the same kind
\* empties the last-error field.
C15_SuccessClearsError ==
  [][\A msg \in BagToSet(msgs) :
       /\ msg.type \in LoadKinds /\ msg.err = ""
       /\ m.k8sErr \in KindErrs(msg.type)
       /\ Deliver(msg)
       => m'.k8sErr = ""]_vars

\* C16: enter in the namespace selector, on a loaded entry, makes that entry
\* the client's current namespace (the context stays), gives the screen back
\* to the one the selector was opened over, and requests exactly one pod-list
\* load; and a pod-list load lists pods of the client's current namespace.
C16_NamespaceEnter ==
  [][/\ (/\ m.view = "NamespaceSelector"
         /\ m.selectedNamespaceIndex < Len(m.namespaces)
         /\ KeyWithin("enter", 0, 0, MaxSelectInFlight))
        => /\ client'.currentNamespace =
                m.namespaces[m.selectedNamespaceIndex + 1].name
           /\ client'.currentContext = client.currentContext
           /\ beneath # <<>> /\ m'.view = Head(beneath)
           /\ \E c \in BagToSet(cmds') :
                c.type = "loadPods" /\ cmds' = cmds (+) One(c)
     /\ \A c \in BagToSet(cmds) :
          RunLoadPods(c, {""}, {<<"alpha">>}) =>
            \E msg \in BagToSet(msgs') :
              /\ msgs' = msgs (+) One(msg)
              /\ msg.list # <<>>
              /\ \A i \in 1..Len(msg.list) :
                   msg.list[i].namespace = client.currentNamespace]_vars

\* C17: enter in the context selector, when the client of the picked context
\* can be built, makes that context the client's current context and the
\* namespace the context declares ("default" when it declares none) the
\* client's current namespace, gives the screen back to the one the selector
\* was opened over, and requests one pod-list load and one context-list
\* load; and a context-list load flags the client's current context, and
\* only it, as current.
C17_ContextEnter ==
  [][/\ (/\ m.view = "ContextSelector"
         /\ m.selectedContextIndex < Len(m.contexts)
         /\ KeyOutcome("enter", TRUE, 0, 0, MaxSelectInFlight))
        => LET ctx == m.contexts[m.selectedContextIndex + 1]
           IN  /\ client'.currentContext = ctx.name
               /\ client'.currentNamespace = ctx.namespace
               /\ beneath # <<>> /\ m'.view = Head(beneath)
               /\ cmds' = cmds (+) One(Cmd("loadPods", 1, ""))
                               (+) One(Cmd("loadContexts", 1, ""))
     /\ \A c \in BagToSet(cmds) :
          RunLoadContexts(c) =>
            \E msg \in BagToSet(msgs') :
              /\ msgs' = msgs (+) One(msg)
              /\ \E i \in 1..Len(msg.list) : msg.list[i].isCurrent
              /\ \A i \in 1..Len(msg.list) :
                   msg.list[i].isCurrent <=>
                     msg.list[i].name = client.currentContext]_vars

\* C18: when switching context fails (the client of the picked context
\* cannot be built, or the context does not exist), the client's current
\* context and current namespace are exactly what they were, the last-error
\* field holds the failure, the selector stays open and no load is requested.
C18_FailedSwitchKeepsClient ==
  [][/\ \A ok \in BOOLEAN :
          SwitchContext(client, "absent", ok) =
            [client |-> client, err |-> "context not found"]
     /\ (/\ m.view = "ContextSelector"
         /\ m.selectedContextIndex < Len(m.contexts)
         /\ KeyOutcome("enter", FALSE, 0, 0, MaxSwitchInFlight))
        => /\ client' = client
           /\ m'.k8sErr = "failed to build config"
           /\ m'.view = "ContextSelector"
           /\ cmds' = cmds
           /\ msgs' = msgs]_vars

\* The user moved to the context "prod" and picked it, its client could not
\* be built: the selector is still open on that entry, the error is
\* recorded, the client is still on "dev" and nothing is in flight.
C18_FailedSwitchSeen ==
  /\ m.view = "ContextSelector"
  /\ m.selectedContextIndex = 1
  /\ m.contexts[2].name = "prod"
  /\ m.k8sErr = "failed to build config"
  /\ client = NewClient
  /\ cmds = EmptyBag /\ msgs = EmptyBag

\* C19: handling a successful namespace (or context) list result makes the
\* in-memory list the result's list and the namespace (or context) selection
\* index the index of the entry of that list flagged current, so the index
\* is a valid index of a non-empty loaded list.
C19_SelectionFollowsCurrent ==
  [][\A msg \in BagToSet(msgs) :
       msg.err = "" /\ Deliver(msg) =>
         /\ msg.type = "namespacesLoadedMsg" =>
              /\ m'.namespaces = msg.list
              /\ m'.selectedNamespaceIndex < Len(m'.namespaces)
              /\ m'.namespaces[m'.selectedNamespaceIndex + 1].isCurrent
         /\ msg.type = "contextsLoadedMsg" =>
              /\ m'.contexts = msg.list
              /\ m'.selectedContextIndex < Len(m'.contexts)
              /\ m'.contexts[m'.selectedContextIndex + 1].isCurrent]_vars

\* C20: pod-list loads in flight at the same time are all delivered and all
\* applied: a refresh requested while a load is in flight adds a load of its
\* own, every load that runs adds a result of its own, and handling a result
\* makes the pod list and the last-error field those of that result (a
\* failure carries no list and leaves the list alone), so after both
\* results the last one handled decides, whichever load was requested first.
C20_LastResultWins ==
  [][/\ m.view = "PodList" /\ KeyWithin("r", 0, 0, MaxLoadsInFlight) =>
          cmds' = cmds (+) One(loadPodsCmd(m))
     /\ \A c \in BagToSet(cmds) :
          RunLoadPods(c, ListPodsErrs, LoadsPodNames) =>
            /\ cmds' = cmds (-) One(c)
            /\ \E msg \in BagToSet(msgs') :
                 msg.type = "podsLoadedMsg" /\ msgs' = msgs (+) One(msg)
     /\ \A msg \in BagToSet(msgs) :
          msg.type = "podsLoadedMsg" /\ Deliver(msg) =>
            /\ msgs' = msgs (-) One(msg)
            /\ m'.k8sErr = msg.err
            /\ m'.pods = IF msg.err = "" THEN msg.list ELSE m.pods]_vars

\* Two pod-list loads were in flight together and both have returned, with
\* different lists: both results wait to be handled, over a pod list that
\* is neither of them.
C20_TwoResultsPending ==
  /\ m.k8sClient /\ m.view = "PodList"
  /\ m.pods = <<>>
  /\ msgs = One(Msg("podsLoadedMsg", 0, "", PodList(<<"alpha">>, "default")))
             (+) One(Msg("podsLoadedMsg", 0, "",
                         PodList(<<"alpha", "beta">>, "default")))
  /\ cmds = EmptyBag

\* C21: handling an event calls no blocking or I/O collaborator operation:
\* what a key press makes of the Model and of the client is decided by the
\* in-memory state alone, never by the outcome of a collaborator call
\* (connect, list, switch context, open log stream), which only the
\* operations handed to the event loop meet.
C21_UpdateDoesNoIO ==
  \A k \in Keys : \A ok1, ok2 \in BOOLEAN :
    handleKeyPress(m, client, k, Len(streams) + 1, ok1)
      = handleKeyPress(m, client, k, Len(streams) + 1, ok2)

\* C22: when the connection attempt fails and no connection had succeeded
\* before, start-up is fatal: handling the failed result ends the program
\* with a failure status (neither still running nor a normal quit), so no
\* key press is processed after it.
C22_FailedConnectIsFatal ==
  [][\A msg \in BagToSet(msgs) :
       /\ msg.type = "k8sClientReadyMsg" /\ msg.err # ""
       /\ ~m.k8sClient
       /\ Deliver(msg)
       => exit' \notin {"running", "quit"}]_vars

\* C23: whenever the last-error field is set, key presses can re-issue the
\* operation that failed, and once the collaborator succeeds the error is
\* cleared, also after a failed connection attempt: with a user who keeps
\* refreshing and a cluster that eventually answers, every error shown is
\* eventually cleared.
C23_ErrorCanBeRetried == (m.k8sErr # "") ~> (m.k8sErr = "")

C25_ResetOnEntryAndExit ==
  [][/\ (m.view # "Logs" /\ m'.view = "Logs") => m'.logView.lines = <<>>
     /\ (m.view = "Logs" /\ Key("esc", MaxPodsLines, MaxPodsStreams)) =>
          m'.logView.lines = <<>>]_vars

\* ------------------------------------------------------- strings, regexp
\* A Go string is a TLA+ string; Len, SubSeq and \o work on it.
CharAt(s, i) == SubSeq(s, i, i)

\* strings.TrimSpace, over the white space a terminal or a listing can hold
TrimSpace(s) ==
  LET black == {i \in 1..Len(s) : CharAt(s, i) \notin {" ", "\t", "\n", "\r"}}
  IN  IF black = {} THEN ""
      ELSE SubSeq(s, CHOOSE i \in black : \A j \in black : i <= j,
                     CHOOSE i \in black : \A j \in black : i >= j)

\* strings.Split with a non-empty separator
RECURSIVE Split(_, _)
Split(s, sep) ==
  LET hits == {h \in 1..(Len(s) - Len(sep) + 1) :
                 SubSeq(s, h, h + Len(sep) - 1) = sep}
      \* strings.Index, counted from 1; 0 when sep does not occur
      i == IF hits = {} THEN 0 ELSE CHOOSE h \in hits : \A g \in hits : h <= g
  IN  IF i = 0 THEN <<s>>
      ELSE <<SubSeq(s, 1, i - 1)>>
             \o Split(SubSeq(s, i + Len(sep), Len(s)), sep)

\* regexp.FindStringSubmatch for a pattern anchored at both ends, given as
\* its repetitions <<class, min, max>> (max = 0: no limit), the odd ones
\* being its groups: <<>> when there is no match, else the groups.  The
\* match is greedy and backtracks.
FindStringSubmatch(pat, s) ==
  LET RECURSIVE MatchFrom(_, _)
      RECURSIVE TryLen(_, _, _)
      CharsOf(str) == {CharAt(str, i) : i \in 1..Len(str)}
      digits == CharsOf("0123456789")
      letters ==
        CharsOf("ABCDEFGHIJKLMNOPQRSTUVWXYZabcdefghijklmnopqrstuvwxyz")
      \* the character classes [drwxlst-], \s, \S, \d, \w, [\d:] and the dot
      InClass(c, cls) ==
        CASE cls = "perm" -> c \in CharsOf("drwxlst-")
          [] cls = "space" -> c \in {" ", "\t", "\n", "\r"}
          [] cls = "nonspace" -> c \notin {" ", "\t", "\n", "\r"}
          [] cls = "digit" -> c \in digits
          [] cls = "word" -> c \in digits \cup letters \cup {"_"}
          [] cls = "digitOrColon" -> c \in digits \cup {":"}
          [] cls = "any" -> c # "\n"
      NoMatch == [ok |-> FALSE, parts |-> <<>>]
      \* the longest run of characters of the i-th class from pos on
      Run(i, pos) ==
        LET cap == IF pat[i][3] = 0 \/ pat[i][3] > Len(s) - pos + 1
                   THEN Len(s) - pos + 1 ELSE pat[i][3]
            fits(n) == \A j \in pos..(pos + n - 1) :
                         InClass(CharAt(s, j), pat[i][1])
        IN  CHOOSE n \in 0..cap : fits(n) /\ (n = cap \/ ~fits(n + 1))
      MatchFrom(i, pos) ==
        IF i > Len(pat)
        THEN IF pos = Len(s) + 1 THEN [ok |-> TRUE, parts |-> <<>>]
             ELSE NoMatch
        ELSE TryLen(i, pos, Run(i, pos))
      TryLen(i, pos, n) ==
        IF n < pat[i][2] THEN NoMatch
        ELSE LET rest == MatchFrom(i + 1, pos + n)
             IN  IF rest.ok
                 THEN [ok |-> TRUE,
                       parts |-> <<SubSeq(s, pos, pos + n - 1)>> \o rest.parts]
                 ELSE TryLen(i, pos, n - 1)
      r == MatchFrom(1, 1)
  IN  IF ~r.ok THEN <<>>
      ELSE [g \in 1..((Len(pat) + 1) \div 2) |-> r.parts[2 * g - 1]]

\* ------------------------------------------------------------ k8s (files)
\* ^([drwxlst-]{10})\s+(\d+)\s+(\S+)\s+(\S+)\s+(\d+)\s+(\w+)\s+(\d+)
\*  \s+([\d:]+)\s+(.+)$
LsPattern ==
  <<<<"perm", 10, 10>>, <<"space", 1, 0>>, <<"digit", 1, 0>>,
    <<"space", 1, 0>>, <<"nonspace", 1, 0>>, <<"space", 1, 0>>,
    <<"nonspace", 1, 0>>, <<"space", 1, 0>>, <<"digit", 1, 0>>,
    <<"space", 1, 0>>, <<"word", 1, 0>>, <<"space", 1, 0>>,
    <<"digit", 1, 0>>, <<"space", 1, 0>>, <<"digitOrColon", 1, 0>>,
    <<"space", 1, 0>>, <<"any", 1, 0>>>>

\* FileInfo{}
NoFileInfo ==
  [Name |-> "", IsDir |-> FALSE, IsSymlink |-> FALSE, Size |-> 0,
   Permissions |-> "", Owner |-> "", Group |-> "", ModTime |-> "",
   LinkTarget |-> ""]

\* A parser that splits the trailing field of every line at the arrow
parseLsLineSplittingAll(line) ==
  LET matches == FindStringSubmatch(LsPattern, line)
      RECURSIVE ParseInt(_)
      \* strconv.ParseInt(s, 10, 64) of a run of digits
      ParseInt(s) ==
        IF s = "" THEN 0
        ELSE 10 * ParseInt(SubSeq(s, 1, Len(s) - 1))
               + (CHOOSE d \in 0..9 :
                    CharAt("0123456789", d + 1) = CharAt(s, Len(s)))
      \* strings.SplitN(s, " -> ", 2)
      SplitN2(s) ==
        LET hits == {h \in 1..(Len(s) - 3) : SubSeq(s, h, h + 3) = " -> "}
            i == IF hits = {} THEN 0
                 ELSE CHOOSE h \in hits : \A g \in hits : h <= g
        IN  IF i = 0 THEN <<s>>
            ELSE <<SubSeq(s, 1, i - 1), SubSeq(s, i + 4, Len(s))>>
  IN  IF matches = <<>>
      THEN [entry |-> NoFileInfo, err |-> "failed to parse line"]
      ELSE LET parts == SplitN2(matches[9])
           IN  [entry |->
                  [Name |-> parts[1],
                   IsDir |-> CharAt(matches[1], 1) = "d",
                   IsSymlink |-> CharAt(matches[1], 1) = "l",
                   Size |-> ParseInt(matches[5]),
                   Permissions |-> matches[1],
                   Owner |-> matches[3], Group |-> matches[4],
                   ModTime |-> matches[6] \o " " \o matches[7] \o " "
                                 \o matches[8],
                   LinkTarget |-> IF Len(parts) > 1 THEN parts[2] ELSE ""],
                err |-> ""]

parseLsLine(line) ==
  LET matches == FindStringSubmatch(LsPattern, line)
      RECURSIVE ParseInt(_)
      \* strconv.ParseInt(s, 10, 64) of a run of digits
      ParseInt(s) ==
        IF s = "" THEN 0
        ELSE 10 * ParseInt(SubSeq(s, 1, Len(s) - 1))
               + (CHOOSE d \in 0..9 :
                    CharAt("0123456789", d + 1) = CharAt(s, Len(s)))
      \* strings.SplitN(s, " -> ", 2)
      SplitN2(s) ==
        LET hits == {h \in 1..(Len(s) - 3) : SubSeq(s, h, h + 3) = " -> "}
            i == IF hits = {} THEN 0
                 ELSE CHOOSE h \in hits : \A g \in hits : h <= g
        IN  IF i = 0 THEN <<s>>
            ELSE <<SubSeq(s, 1, i - 1), SubSeq(s, i + 4, Len(s))>>
  IN  IF matches = <<>>
      THEN [entry |-> NoFileInfo, err |-> "failed to parse line"]
      ELSE LET permissions == matches[1]
               name == matches[9]
               entry == [NoFileInfo EXCEPT
                           !.Permissions = permissions,
                           !.Owner = matches[3],
                           !.Group = matches[4],
                           !.Size = ParseInt(matches[5]),
                           !.ModTime = matches[6] \o " " \o matches[7] \o " "
                                         \o matches[8],
                           !.IsDir = CharAt(permissions, 1) = "d",
                           !.IsSymlink = CharAt(permissions, 1) = "l"]
               parts == SplitN2(name)
           IN  [entry |->
                  IF entry.IsSymlink
                  THEN [entry EXCEPT
                          !.Name = parts[1],
                          !.LinkTarget = IF Len(parts) > 1 THEN parts[2]
                                         ELSE ""]
                  ELSE [entry EXCEPT !.Name = name],
                err |-> ""]

\* A parser that gives up at the first line it cannot parse
ParseLsOutputStrictly(output) ==
  LET RECURSIVE loop(_, _)
      loop(lines, entries) ==
        IF lines = <<>> THEN [entries |-> entries, err |-> ""]
        ELSE LET line == TrimSpace(Head(lines))
                 parsed == parseLsLine(line)
             IN  IF line = "" THEN loop(Tail(lines), entries)
                 ELSE IF Len(line) >= 6 /\ SubSeq(line, 1, 6) = "total "
                 THEN loop(Tail(lines), entries)
                 ELSE IF parsed.err # ""
                 THEN [entries |-> <<>>, err |-> parsed.err]
                 ELSE loop(Tail(lines), Append(entries, parsed.entry))
  IN  loop(Split(output, "\n"), <<>>)

\* loop(lines, entries): the for loop over the lines left, entries being
\* the records appended so far
ParseLsOutput(output) ==
  LET RECURSIVE loop(_, _)
      loop(lines, entries) ==
        IF lines = <<>> THEN [entries |-> entries, err |-> ""]
        ELSE LET line == TrimSpace(Head(lines))
                 parsed == parseLsLine(line)
             IN  IF line = "" THEN loop(Tail(lines), entries)
                 ELSE IF Len(line) >= 6 /\ SubSeq(line, 1, 6) = "total "
                 THEN loop(Tail(lines), entries)
                 ELSE IF parsed.err # "" THEN loop(Tail(lines), entries)
                 ELSE loop(Tail(lines), Append(entries, parsed.entry))
  IN  loop(Split(output, "\n"), <<>>)

\* One listing line as ls -la writes it, handed to parseLsLine: nine fields,
\* the trailing one a name or a name, an arrow and a target.  The
\* permissions are those of directories, links, files, a set-uid file, a
\* set-uid file without the execute bit, a sticky directory, a socket and a
\* named pipe.
InitLsLine ==
  /\ \E f \in [perm : {"drwxr-xr-x", "lrwxrwxrwx", "-rw-r--r--", "-rwsr-xr-x",
                       "-rwSr--r--", "drwxrwxrwt", "srwxr-xr-x", "prw-r--r--"},
               sep : {" ", "  ", "\t"}, size : {"0", "1234"},
               time : {"12:00", "2023"},
               name : {".", "file.txt", "file with spaces.txt", "a  b"},
               target : {"", "/app/v1.2.3", "b -> c"}] :
       m = [fields |-> f,
            line |-> f.perm \o f.sep \o "1" \o f.sep \o "root" \o f.sep
                       \o "root" \o f.sep \o f.size \o f.sep \o "Jan"
                       \o f.sep \o f.sep \o "1" \o f.sep \o f.time \o f.sep
                       \o f.name
                       \o (IF f.target = "" THEN "" ELSE " -> " \o f.target),
            done |-> FALSE,
            parsed |-> [entry |-> NoFileInfo, err |-> ""]]
  /\ client = NewClient
  /\ streams = <<>>
  /\ cmds = EmptyBag
  /\ msgs = EmptyBag
  /\ exit = "running"
  /\ beneath = <<>>

\* entry, err := parseLsLine(line)
UnitParseLsLine ==
  /\ ~m.done
  /\ m' = [m EXCEPT !.done = TRUE, !.parsed = parseLsLine(m.line)]
  /\ UNCHANGED <<client, streams, cmds, msgs, exit, beneath>>

SpecLsLine == InitLsLine /\ [][UnitParseLsLine]_vars

\* A listing of up to MaxLsLines lines handed to ParseLsOutput: blank
\* lines, the summary, noise, entries, an entry with padding and a carriage
\* return, and a named pipe
InitLs ==
  /\ LET LsLines ==
           {"", "  ", "total 0", "total 24", "ls: cannot access",
            "drwxr-xr-x 3 root root 4096 Jan  1 12:00 .",
            "-rw-r--r-- 1 root root 1234 Jan  1 12:00 file.txt",
            "lrwxrwxrwx 1 root root 10 Jan  1 12:00 link -> /target",
            "  -rw-r--r-- 1 root root 0 Jan  1  2023 a b\r",
            "prw-r--r-- 1 root root 0 Jan  1 12:00 pipe"}
         RECURSIVE JoinLines(_)
         JoinLines(lines) ==
           IF lines = <<>> THEN ""
           ELSE IF Len(lines) = 1 THEN lines[1]
           ELSE lines[1] \o "\n" \o JoinLines(Tail(lines))
     IN  \E n \in 0..MaxLsLines : \E lines \in [1..n -> LsLines] :
           m = [output |-> JoinLines(lines), done |-> FALSE,
                entries |-> <<>>, err |-> ""]
  /\ client = NewClient
  /\ streams = <<>>
  /\ cmds = EmptyBag
  /\ msgs = EmptyBag
  /\ exit = "running"
  /\ beneath = <<>>

\* entries, err := ParseLsOutput(output)
UnitParseLsOutput ==
  /\ ~m.done
  /\ LET r == ParseLsOutput(m.output)
     IN  m' = [m EXCEPT !.done = TRUE, !.entries = r.entries, !.err = r.err]
  /\ UNCHANGED <<client, streams, cmds, msgs, exit, beneath>>

SpecLs == InitLs /\ [][UnitParseLsOutput]_vars

\* C26: the directory-listing parser returns no error for any text: blank
\* lines, "total " lines and lines the pattern does not match give no record,
\* every matching line gives exactly one record, records are in line order,
\* and the empty text and "total 0" give an empty sequence.
C26_ParserNeverFails ==
  m.done =>
    LET lines == Split(m.output, "\n")
        Listed(line) ==
          LET t == TrimSpace(line)
          IN  /\ t # ""
              /\ ~(Len(t) >= 6 /\ SubSeq(t, 1, 6) = "total ")
              /\ parseLsLine(t).err = ""
        kept == {i \in 1..Len(lines) : Listed(lines[i])}
        rank(i) == Cardinality({j \in kept : j <= i})
    IN  /\ m.err = ""
        /\ Len(m.entries) = Cardinality(kept)
        /\ \A i \in kept :
             m.entries[rank(i)] = parseLsLine(TrimSpace(lines[i])).entry
        /\ m.output \in {"", "total 0"} => m.entries = <<>>

\* A text of two lines was parsed, one of them dropped, one kept
C26_OneLineDropped ==
  /\ m.done
  /\ Len(Split(m.output, "\n")) = 2
  /\ Len(m.entries) = 1

\* C27: for every valid listing line (a 10-character permission string, link
\* count, owner, group, size, month, day, time or year, name) the parser
\* produces a record whose type follows the first permission character: d is
\* a directory and no link, l a link and no directory, anything else neither.
C27_TypeFollowsFirstChar ==
  m.done =>
    /\ m.parsed.err = ""
    /\ m.parsed.entry.IsDir = (CharAt(m.fields.perm, 1) = "d")
    /\ m.parsed.entry.IsSymlink = (CharAt(m.fields.perm, 1) = "l")

\* C28: for a link line the name is the part of the trailing field before
\* the first " -> " and the target everything after it; for every other line
\* the target is empty and the name is the whole trailing field, its inner
\* whitespace kept.
C28_NameAndTarget ==
  m.done /\ m.parsed.err = "" =>
    IF CharAt(m.fields.perm, 1) = "l"
    THEN /\ m.parsed.entry.Name = m.fields.name
         /\ m.parsed.entry.LinkTarget = m.fields.target
    ELSE /\ m.parsed.entry.Name =
              m.fields.name \o (IF m.fields.target = "" THEN ""
                                ELSE " -> " \o m.fields.target)
         /\ m.parsed.entry.LinkTarget = ""

\* A link whose target itself holds an arrow, and whose name holds spaces,
\* was parsed
C28_LinkWithTwoArrows ==
  /\ m.done
  /\ m.parsed.err = ""
  /\ m.fields.perm = "lrwxrwxrwx"
  /\ m.fields.name = "file with spaces.txt"
  /\ m.fields.target = "b -> c"

\* ------------------------------------------------------------- k8s (exec)
\* scan(i, args, current, inQuotes): the loop from the i-th character on,
\* args being the arguments appended so far and current the strings.Builder;
\* nil and the empty slice are both <<>>
ParseCommand(cmd) ==
  LET trimmed == TrimSpace(cmd)
      RECURSIVE scan(_, _, _, _)
      scan(i, args, current, inQuotes) ==
        IF i > Len(trimmed)
        THEN IF Len(current) > 0 THEN Append(args, current) ELSE args
        ELSE LET r == CharAt(trimmed, i)
             IN  IF r = "\""
                 THEN scan(i + 1, args, current, ~inQuotes)
                 ELSE IF r = " " /\ ~inQuotes
                 THEN IF Len(current) > 0
                      THEN scan(i + 1, Append(args, current), "", inQuotes)
                      ELSE scan(i + 1, args, current, inQuotes)
                 ELSE scan(i + 1, args, current \o r, inQuotes)
  IN  IF trimmed = "" THEN <<>> ELSE scan(1, <<>>, "", FALSE)

\* A command line of up to MaxCmdLen characters handed to ParseCommand, each
\* a letter, a space, a tab or a double quote
InitCmd ==
  /\ LET RECURSIVE Concat(_)
         Concat(strs) ==
           IF strs = <<>> THEN "" ELSE Head(strs) \o Concat(Tail(strs))
     IN  \E n \in 0..MaxCmdLen : \E cs \in [1..n -> {"a", " ", "\t", "\""}] :
           m = [cmd |-> Concat(cs), done |-> FALSE, args |-> <<>>]
  /\ client = NewClient
  /\ streams = <<>>
  /\ cmds = EmptyBag
  /\ msgs = EmptyBag
  /\ exit = "running"
  /\ beneath = <<>>

\* args := ParseCommand(cmd)
UnitParseCommand ==
  /\ ~m.done
  /\ m' = [m EXCEPT !.done = TRUE, !.args = ParseCommand(m.cmd)]
  /\ UNCHANGED <<client, streams, cmds, msgs, exit, beneath>>

SpecCmd == InitCmd /\ [][UnitParseCommand]_vars

\* C29: the tokenizer splits a command line so that each double quote
\* toggles quoting and is part of no argument, every run of whitespace
\* outside quotes separates arguments, whitespace inside quotes is kept,
\* the order is preserved, and an empty or whitespace-only line gives the
\* empty result.
C29_Tokenizer ==
  m.done =>
    LET s == TrimSpace(m.cmd)
        \* the i-th character is outside quotes: an even number before it
        Outside(i) ==
          Cardinality({j \in 1..(i - 1) : CharAt(s, j) = "\""}) % 2 = 0
        \* the i-th character is whitespace that separates arguments
        Separates(i) ==
          CharAt(s, i) \in {" ", "\t", "\n", "\r"} /\ Outside(i)
        \* the i-th character belongs to an argument
        Kept(i) == CharAt(s, i) # "\"" /\ ~Separates(i)
        RECURSIVE KeptFrom(_)
        KeptFrom(i) ==
          IF i > Len(s) THEN ""
          ELSE (IF Kept(i) THEN CharAt(s, i) ELSE "") \o KeptFrom(i + 1)
        RECURSIVE Concat(_)
        Concat(strs) ==
          IF strs = <<>> THEN "" ELSE Head(strs) \o Concat(Tail(strs))
        \* an argument starts at i: a separator lies between i and every
        \* character of an argument before it
        ArgStarts ==
          {i \in 1..Len(s) :
             /\ Kept(i)
             /\ \A j \in 1..(i - 1) :
                  Kept(j) => \E k \in (j + 1)..(i - 1) : Separates(k)}
    IN  /\ \A a \in 1..Len(m.args) : \A i \in 1..Len(m.args[a]) :
             CharAt(m.args[a], i) # "\""
        /\ Concat(m.args) = KeptFrom(1)
        /\ Len(m.args) = Cardinality(ArgStarts)
        /\ s = "" => m.args = <<>>

\* ------------------------------------------------------ ui.ExecViewModel
ExecSetSize(ev, width, height) ==
  LET viewportHeight == IF height - 6 < 1 THEN 1 ELSE height - 6
      vp == IF ~ev.ready THEN NewViewport(viewportHeight)
            ELSE [ev.viewport EXCEPT !.Height = viewportHeight]
  IN  \* updateViewportContent: the view is ready from here on
      [ev EXCEPT !.width = width, !.height = height, !.ready = TRUE,
                 !.viewport = VpGotoBottom(SetContent(vp, ev.outputLines))]

\* An AddToHistory that keeps every command
AddToHistoryKeepingAll(ev, cmd) ==
  IF cmd = "" THEN ev
  ELSE IF Len(ev.history) > 0 /\ ev.history[Len(ev.history)] = cmd THEN ev
  ELSE [ev EXCEPT !.history = Append(ev.history, cmd),
                  !.historyIndex = Len(ev.history) + 1]

AddToHistory(ev, cmd) ==
  IF cmd = "" THEN ev
  ELSE IF Len(ev.history) > 0 /\ ev.history[Len(ev.history)] = cmd THEN ev
  ELSE LET appended == Append(ev.history, cmd)
           kept == IF Len(appended) > maxHistorySize THEN Tail(appended)
                   ELSE appended
       IN  [ev EXCEPT !.history = kept, !.historyIndex = Len(kept)]

\* lines: the non-empty lines of the text, numbered; a line of stderr is
\* the negative of its number
AddOutput(ev, lines, isStderr) ==
  IF lines = <<>> THEN ev
  ELSE LET appended == ev.outputLines
                         \o [i \in 1..Len(lines) |->
                               IF isStderr THEN -lines[i] ELSE lines[i]]
           trimCount == maxOutputLines \div 10
           kept == IF Len(appended) > maxOutputLines
                   THEN SubSeq(appended, trimCount + 1, Len(appended))
                   ELSE appended
       IN  \* updateViewportContent
           IF ~ev.ready THEN [ev EXCEPT !.outputLines = kept]
           ELSE [ev EXCEPT !.outputLines = kept,
                           !.viewport = VpGotoBottom(SetContent(@, kept))]

\* ExecViewModel.Update for a key message when no command is running.
\* typed: textinput.Update, which inserts a rune and asks the cursor to
\* blink, deletes on backspace and leaves the text alone otherwise.
execKey(ev, k) ==
  LET typed ==
        IF ~ev.input.focus THEN [input |-> ev.input, cmd |-> "nil"]
        ELSE IF Len(k) = 1 /\ Len(ev.input.value) < CharLimit
        THEN [input |-> [ev.input EXCEPT !.value = @ \o k], cmd |-> "blink"]
        ELSE IF k = "backspace" /\ Len(ev.input.value) > 0
        THEN [input |-> [ev.input EXCEPT
                           !.value = SubSeq(@, 1, Len(@) - 1)],
              cmd |-> "blink"]
        ELSE [input |-> ev.input, cmd |-> "nil"]
      HistoryPrev ==
        IF Len(ev.history) = 0 THEN ev
        ELSE LET idx == IF ev.historyIndex > 0 THEN ev.historyIndex - 1
                        ELSE ev.historyIndex
             IN  IF idx < Len(ev.history)
                 THEN [ev EXCEPT !.historyIndex = idx,
                                 !.input.value = ev.history[idx + 1]]
                 ELSE [ev EXCEPT !.historyIndex = idx]
      HistoryNext ==
        IF Len(ev.history) = 0 THEN ev
        ELSE IF ev.historyIndex < Len(ev.history) - 1
        THEN [ev EXCEPT !.historyIndex = @ + 1,
                        !.input.value = ev.history[ev.historyIndex + 2]]
        ELSE IF ev.historyIndex = Len(ev.history) - 1
        THEN [ev EXCEPT !.historyIndex = Len(ev.history), !.input.value = ""]
        ELSE ev
  IN  CASE k = "up" ->
             [view |-> IF ev.input.focus THEN HistoryPrev
                       ELSE [ev EXCEPT !.viewport = LineUp(@, 1)],
              cmd |-> "nil"]
        [] k = "down" ->
             [view |-> IF ev.input.focus THEN HistoryNext
                       ELSE [ev EXCEPT !.viewport = LineDown(@, 1)],
              cmd |-> "nil"]
        [] k = "pgup" ->
             [view |-> [ev EXCEPT !.viewport = ViewUp(@)], cmd |-> "nil"]
        [] k = "pgdown" ->
             [view |-> [ev EXCEPT !.viewport = ViewDown(@)], cmd |-> "nil"]
        [] k = "tab" ->
             [view |-> [ev EXCEPT !.input.focus = ~@], cmd |-> "nil"]
        [] OTHER ->
             [view |-> [ev EXCEPT !.input = typed.input,
                                  !.viewport = VpUpdate(@, k)],
              cmd |-> typed.cmd]

\* An Update that handles keys in every state
ExecViewUpdateInAnyState(ev, k) == execKey(ev, k)

\* ExecViewModel.Update for a key message
ExecViewUpdate(ev, k) ==
  IF ev.state = "Running" THEN [view |-> ev, cmd |-> "nil"]
  ELSE execKey(ev, k)

\* NewExecViewModel; input = [value, focus] is the bubbles textinput.Model
InitExec ==
  /\ m = [view |->
            [input |-> [value |-> "", focus |-> TRUE],
             viewport |-> ZeroViewport, outputLines |-> <<>>,
             history |-> <<>>, historyIndex |-> -1, state |-> "Idle",
             errorMsg |-> "", width |-> 0, height |-> 0, ready |-> FALSE],
          cmd |-> "nil"]
  /\ client = NewClient
  /\ streams = <<>>
  /\ cmds = EmptyBag
  /\ msgs = EmptyBag
  /\ exit = "running"
  /\ beneath = <<>>

\* view, cmd = view.Update(tea.KeyMsg)
UnitExecUpdate(k) ==
  /\ LET res == ExecViewUpdate(m.view, k)
     IN  /\ Len(res.view.input.value) <= MaxExecInput
         /\ m' = [view |-> res.view, cmd |-> res.cmd]
  /\ UNCHANGED <<client, streams, cmds, msgs, exit, beneath>>

\* The exec view alone, driven as its owner drives it: it is sized, told
\* the state of the command, given history and output, and handed the keys
NextExec ==
  \/ /\ \E h \in {7, 8} : m' = [m EXCEPT !.view = ExecSetSize(@, 80, h)]
     /\ UNCHANGED <<client, streams, cmds, msgs, exit, beneath>>
  \/ /\ \E state \in {"Idle", "Running", "Complete", "Error"} :
          m' = [m EXCEPT !.view.state = state]
     /\ UNCHANGED <<client, streams, cmds, msgs, exit, beneath>>
  \/ /\ Len(m.view.history) < MaxExecHistory
     /\ \E cmd \in {"ls", "pwd"} : m' = [m EXCEPT !.view = AddToHistory(@, cmd)]
     /\ UNCHANGED <<client, streams, cmds, msgs, exit, beneath>>
  \/ /\ Len(m.view.outputLines) < MaxExecOutput
     /\ \E isStderr \in BOOLEAN :
          m' = [m EXCEPT !.view =
                  AddOutput(@, <<Len(m.view.outputLines) + 1>>, isStderr)]
     /\ UNCHANGED <<client, streams, cmds, msgs, exit, beneath>>
  \/ \E k \in {"j", "backspace", "enter", "up", "down", "pgup", "pgdown",
               "tab"} : UnitExecUpdate(k)

SpecExec == InitExec /\ [][NextExec]_vars

\* C30: while the exec view is Running, handling a key leaves the exec view
\* model unchanged (input text, focus, history cursor, output and scroll
\* position) and requests no operation.
C30_RunningIgnoresKeys ==
  [][\A k \in {"j", "backspace", "enter", "up", "down", "pgup", "pgdown",
               "tab"} :
       m.view.state = "Running" /\ UnitExecUpdate(k) =>
         m'.view = m.view /\ m'.cmd = "nil"]_vars

\* A command is running in a view that holds text, history and more output
\* than the viewport shows
C30_KeyWhileRunning ==
  /\ m.view.state = "Running"
  /\ m.view.input.value # ""
  /\ m.view.history # <<>>
  /\ Len(m.view.outputLines) > m.view.viewport.Height
  /\ m.view.ready

\* ------------------------------------------- ui.ExecViewModel at its limits
\* The three lines of a marker: the empty line is 0 (as in JoinSplit), the
\* line "$ cmd" is LineBase + len(cmd), the rule is 2 * LineBase + its
\* length.  strings.Repeat panics on a negative count.
AddCommandMarker(ev, cmd) ==
  LET count == Min(Len(cmd) + 4, ev.width - 2)
      appended == ev.outputLines
                    \o <<0, LineBase + Len(cmd), 2 * LineBase + count>>
  IN  IF count < 0 THEN [view |-> ev, exit |-> "panic"]
      ELSE [view |-> IF ~ev.ready THEN [ev EXCEPT !.outputLines = appended]
                     ELSE [ev EXCEPT !.outputLines = appended,
                             !.viewport = VpGotoBottom(SetContent(@, appended))],
            exit |-> "running"]

\* An exec view that has been in use for a while: sized or not, with either
\* its output buffer or its history a little below the limit.  calls counts
\* the calls that add to the one or the other.
InitExecCaps ==
  /\ \E sized \in BOOLEAN, full \in {"output", "history"} :
       LET new == [input |-> [value |-> "", focus |-> TRUE],
                   viewport |-> ZeroViewport, outputLines |-> <<>>,
                   history |-> <<>>, historyIndex |-> -1, state |-> "Idle",
                   errorMsg |-> "", width |-> 0, height |-> 0,
                   ready |-> FALSE]
           used == IF full = "output"
                   THEN [new EXCEPT !.outputLines =
                           [i \in 1..(maxOutputLines - ExecHeadroom) |-> i]]
                   ELSE [new EXCEPT
                           !.history =
                             [i \in 1..(maxHistorySize - ExecHeadroom) |->
                                IF i % 2 = 1 THEN "ls" ELSE "cd"],
                           !.historyIndex = maxHistorySize - ExecHeadroom]
       IN  m = [view |-> IF sized THEN ExecSetSize(used, 80, 8) ELSE used,
                cmd |-> "nil", calls |-> 0]
  /\ client = NewClient
  /\ streams = <<>>
  /\ cmds = EmptyBag
  /\ msgs = EmptyBag
  /\ exit = "running"
  /\ beneath = <<>>

\* Output and markers are added to a buffer near its limit, commands are
\* remembered in a history near its limit, and up/down walk the history
NextExecCaps ==
  \/ /\ m.calls < MaxExecCalls /\ exit = "running"
     /\ Len(m.view.outputLines) >= maxOutputLines - ExecHeadroom
     /\ \E n \in {1, ExecHeadroom + 1,
                   maxOutputLines \div 10 + ExecHeadroom + 1} :
          \E isStderr \in BOOLEAN :
            m' = [m EXCEPT !.view = AddOutput(@, [i \in 1..n |-> i], isStderr),
                           !.calls = @ + 1]
     /\ UNCHANGED <<client, streams, cmds, msgs, exit, beneath>>
  \/ /\ m.calls < MaxExecCalls /\ exit = "running"
     /\ Len(m.view.outputLines) >= maxOutputLines - ExecHeadroom
     /\ LET res == AddCommandMarker(m.view, "ls")
        IN  /\ m' = [m EXCEPT !.view = res.view, !.calls = @ + 1]
            /\ exit' = res.exit
     /\ UNCHANGED <<client, streams, cmds, msgs, beneath>>
  \/ /\ m.calls < MaxExecCalls /\ exit = "running"
     /\ Len(m.view.history) >= maxHistorySize - ExecHeadroom
     /\ \E cmd \in {"", "ls", "cd", "ps"} :
          m' = [m EXCEPT !.view = AddToHistory(@, cmd), !.calls = @ + 1]
     /\ UNCHANGED <<client, streams, cmds, msgs, exit, beneath>>
  \/ /\ exit = "running"
     /\ \E k \in {"up", "down"} :
          LET res == ExecViewUpdate(m.view, k)
          IN  m' = [m EXCEPT !.view = res.view, !.cmd = res.cmd]
     /\ UNCHANGED <<client, streams, cmds, msgs, exit, beneath>>

SpecExecCaps == InitExecCaps /\ [][NextExecCaps]_vars

\* C31: after any sequence of AddOutput and AddCommandMarker calls the
\* output buffer of the exec view holds at most 5,000 lines, however many
\* lines one output has.
C31_OutputBounded == Len(m.view.outputLines) <= maxOutputLines

\* C32: after any sequence of AddToHistory, HistoryPrev and HistoryNext
\* calls the history holds at most 50 commands, none of them empty and no
\* two adjacent ones equal, a non-empty history has its cursor within
\* 0..len(history), and a command added to a full history drops the oldest.
C32_HistoryBounded ==
  /\ [](LET h == m.view.history
        IN  /\ Len(h) <= maxHistorySize
            /\ \A i \in 1..Len(h) : h[i] # ""
            /\ \A i \in 1..(Len(h) - 1) : h[i] # h[i + 1]
            /\ h # <<>> => m.view.historyIndex \in 0..Len(h))
  /\ [][LET h == m.view.history
        IN  m'.view.history # h =>
              \E cmd \in {"ls", "cd", "ps"} :
                m'.view.history =
                  IF Len(h) < maxHistorySize THEN Append(h, cmd)
                  ELSE Append(Tail(h), cmd)]_vars

\* A full history has lost its oldest command and the cursor has been
\* moved back into it
C32_OldestDropped ==
  /\ Len(m.view.history) = maxHistorySize
  /\ m.view.history[1] = "cd"
  /\ m.view.historyIndex < maxHistorySize - 1
  /\ m.view.input.value = m.view.history[m.view.historyIndex + 1]

\* --------------------------------------------------- ui.FileBrowserModel
\* fb = [currentPath, pathHistory, entries, selectedIndex]

\* A PopPath that goes back to the oldest path of the history
PopPathOldest(fb) ==
  IF Len(fb.pathHistory) = 0 THEN [fb |-> fb, ok |-> FALSE]
  ELSE [fb |-> [fb EXCEPT !.currentPath = fb.pathHistory[1],
                          !.pathHistory = Tail(fb.pathHistory)],
        ok |-> TRUE]

PopPath(fb) ==
  IF Len(fb.pathHistory) = 0 THEN [fb |-> fb, ok |-> FALSE]
  ELSE [fb |-> [fb EXCEPT
                  !.currentPath = fb.pathHistory[Len(fb.pathHistory)],
                  !.pathHistory =
                    SubSeq(fb.pathHistory, 1, Len(fb.pathHistory) - 1)],
        ok |-> TRUE]

NavigateToParent(fb) ==
  LET \* k8s.ParentPath
      path == IF Len(fb.currentPath) > 0
                 /\ CharAt(fb.currentPath, Len(fb.currentPath)) = "/"
              THEN SubSeq(fb.currentPath, 1, Len(fb.currentPath) - 1)
              ELSE fb.currentPath
      slashes == {i \in 0..(Len(path) - 1) : CharAt(path, i + 1) = "/"}
      lastSlash == IF slashes = {} THEN -1
                   ELSE CHOOSE i \in slashes : \A j \in slashes : j <= i
      parent == IF path = "" \/ path = "/" THEN "/"
                ELSE IF lastSlash <= 0 THEN "/"
                ELSE SubSeq(path, 1, lastSlash)
  IN  IF parent # fb.currentPath
      THEN [fb |-> [fb EXCEPT !.pathHistory = Append(@, fb.currentPath),
                              !.currentPath = parent],
            path |-> parent, isFile |-> FALSE]
      ELSE [fb |-> fb, path |-> "", isFile |-> FALSE]

NavigateToEntry(fb) ==
  LET \* SelectedEntry
      none == fb.selectedIndex < 0 \/ fb.selectedIndex >= Len(fb.entries)
      entry == fb.entries[fb.selectedIndex + 1]
      \* k8s.JoinPath
      trimmed == IF Len(fb.currentPath) > 0
                    /\ CharAt(fb.currentPath, Len(fb.currentPath)) = "/"
                 THEN SubSeq(fb.currentPath, 1, Len(fb.currentPath) - 1)
                 ELSE fb.currentPath
      base == IF trimmed = "" THEN "/" ELSE trimmed
      newPath == IF base = "/" THEN "/" \o entry.Name
                 ELSE base \o "/" \o entry.Name
  IN  IF none THEN [fb |-> fb, path |-> "", isFile |-> FALSE]
      ELSE IF entry.Name = ".." THEN NavigateToParent(fb)
      ELSE IF entry.Name = "." THEN [fb |-> fb, path |-> "", isFile |-> FALSE]
      ELSE IF entry.IsDir
      THEN [fb |-> [fb EXCEPT !.pathHistory = Append(@, fb.currentPath),
                              !.currentPath = newPath],
            path |-> newPath, isFile |-> FALSE]
      ELSE [fb |-> fb, path |-> newPath, isFile |-> TRUE]

\* NewFileBrowserModel, given a path and the entries of a directory.  call
\* and ret are the last call and what it returned; trail holds, for every
\* navigation not yet undone, the path it left.
InitFiles ==
  /\ \E path \in {"/", "/app/"} :
       m = [fb |-> [currentPath |-> path, pathHistory |-> <<>>,
                    entries |-> <<[Name |-> "..", IsDir |-> TRUE],
                                  [Name |-> ".", IsDir |-> TRUE],
                                  [Name |-> "config", IsDir |-> TRUE],
                                  [Name |-> "logs", IsDir |-> TRUE],
                                  [Name |-> "app.log", IsDir |-> FALSE]>>,
                    selectedIndex |-> 0],
            call |-> "NewFileBrowserModel",
            ret |-> [ok |-> FALSE, path |-> "", isFile |-> FALSE],
            trail |-> <<>>]
  /\ client = NewClient
  /\ streams = <<>>
  /\ cmds = EmptyBag
  /\ msgs = EmptyBag
  /\ exit = "running"
  /\ beneath = <<>>

NextFiles ==
  \/ /\ Len(m.fb.pathHistory) < MaxPathHistory
     /\ \E i \in 0..Len(m.fb.entries) :
          LET res == NavigateToEntry([m.fb EXCEPT !.selectedIndex = i])
          IN  m' = [fb |-> res.fb, call |-> "NavigateToEntry",
                    ret |-> [ok |-> FALSE, path |-> res.path,
                             isFile |-> res.isFile],
                    trail |-> IF res.fb.currentPath # m.fb.currentPath
                              THEN Append(m.trail, m.fb.currentPath)
                              ELSE m.trail]
     /\ UNCHANGED <<client, streams, cmds, msgs, exit, beneath>>
  \/ /\ Len(m.fb.pathHistory) < MaxPathHistory
     /\ LET res == NavigateToParent(m.fb)
        IN  m' = [fb |-> res.fb, call |-> "NavigateToParent",
                  ret |-> [ok |-> FALSE, path |-> res.path,
                           isFile |-> res.isFile],
                  trail |-> IF res.fb.currentPath # m.fb.currentPath
                            THEN Append(m.trail, m.fb.currentPath)
                            ELSE m.trail]
     /\ UNCHANGED <<client, streams, cmds, msgs, exit, beneath>>
  \/ /\ LET res == PopPath(m.fb)
        IN  m' = [fb |-> res.fb, call |-> "PopPath",
                  ret |-> [ok |-> res.ok, path |-> "", isFile |-> FALSE],
                  trail |-> IF m.trail = <<>> THEN <<>>
                            ELSE SubSeq(m.trail, 1, Len(m.trail) - 1)]
     /\ UNCHANGED <<client, streams, cmds, msgs, exit, beneath>>

SpecFiles == InitFiles /\ [][NextFiles]_vars

\* C33: in the file browser every PopPath restores the path that the most
\* recent navigation not yet undone had left and returns true; with nothing
\* to undo it returns false and changes nothing; NavigateToParent at "/"
\* and NavigateToEntry on ".", on a file or on no entry change neither the
\* current path nor the history.
C33_PopUndoesLastNavigation ==
  [][LET sel == m'.fb.selectedIndex
         stays == /\ m'.fb.currentPath = m.fb.currentPath
                  /\ m'.fb.pathHistory = m.fb.pathHistory
     IN  /\ (m'.call = "PopPath" /\ m.trail # <<>>) =>
               /\ m'.fb.currentPath = m.trail[Len(m.trail)]
               /\ m'.ret.ok
         /\ (m'.call = "PopPath" /\ m.trail = <<>>) =>
               m'.fb = m.fb /\ ~m'.ret.ok
         /\ (m'.call = "NavigateToParent" /\ m.fb.currentPath = "/") => stays
         /\ (m'.call = "NavigateToEntry" /\ sel >= Len(m.fb.entries)) => stays
         /\ (m'.call = "NavigateToEntry" /\ sel < Len(m.fb.entries)) =>
               ((m.fb.entries[sel + 1].Name = "."
                   \/ ~m.fb.entries[sel + 1].IsDir) => stays)]_vars

\* A navigation away from "/app/" has been undone: the first path is back
\* as it was and nothing is left to undo
C33_TwoUndone ==
  /\ m.call = "PopPath"
  /\ m.ret.ok
  /\ m.trail = <<>>
  /\ m.fb.currentPath = "/app/"
  /\ m.fb.pathHistory = <<>>

\* ------------------------------------------------------ streams restarted
\* The client is connected and the lists are loaded; the user opens the log
\* view of the pod, asks for help, leaves and comes back, over sources that
\* stay silent until they are closed.
NextRestart ==
  \/ \E k \in {"l", "esc", "?"} :
       KeyWithin(k, 0, MaxRestartStreams, MaxRestartInFlight)
  \/ \E msg \in BagToSet(msgs) : Deliver(msg)
  \/ \E c \in BagToSet(cmds) : RunOpenLogStream(c, OpenStreamErrs)
  \/ \E c \in BagToSet(cmds) : RunWaitForNextLogLine(c)
  \/ \E s \in 1..Len(streams) : ReaderSelect(s)
  \/ \E s \in 1..Len(streams) : ReaderReadEOF(s)

SpecRestart == InitHelp /\ [][NextRestart]_vars

\* C34: at most one cancellation handle is live (created, not yet invoked)
\* at any time, the live one is the one the Model holds, none is live while
\* the screen is PodList, and a transition that creates a handle leaves
\* every earlier one invoked.
C34_OneLiveHandle ==
  /\ [](LET live == {i \in 1..Len(streams) : ~streams[i].cancelled}
        IN  /\ Cardinality(live) <= 1
            /\ live \subseteq {m.logCancel}
            /\ m.view = "PodList" => live = {})
  /\ [][Len(streams') > Len(streams) =>
          \A i \in 1..Len(streams) : streams'[i].cancelled]_vars

\* The log view was left and opened again: the first handle has been
\* invoked, the second is live
C34_SecondStreamLive ==
  /\ Len(streams) = 2
  /\ streams[1].cancelled
  /\ ~streams[2].cancelled
  /\ m.logCancel = 2
  /\ m.view = "Logs"

\* C35: the remembered screen is never an overlay, and pressing back at
\* most twice reaches PodList from every reachable state; so a selector
\* over which Help was opened and closed can still be dismissed.
C35_BackReachesPodList ==
  LET once == handleBack(m, client).m
      twice == handleBack(once, client).m
  IN  /\ ~IsOverlay(m.prevView)
      /\ "PodList" \in {m.view, once.view, twice.view}

\* C36: whenever the pod list is not empty the selected pod index is one of
\* its indices, after any keys and any pod-list results, also a result with
\* fewer pods than the list it replaces.
C36_SelectionInRange ==
  m.pods # <<>> => m.selectedPodIndex \in 0..(Len(m.pods) - 1)

\* C37: a result message of a stream that has been stopped (a line or a
\* channel-ready message of a cancelled stream; an error or ended message
\* when every stream is cancelled) changes nothing when it is handled:
\* neither the buffer, nor the consumer state, nor the active flag, nor
\* the stored channel.
C37_StaleResultIgnored ==
  [][\A msg \in BagToSet(msgs) :
       LET origin == CASE msg.type = "logLineMsg" -> msg.arg \div LineBase
                       [] msg.type = "logStreamChanMsg" -> msg.arg
                       [] OTHER -> 0
           stopped ==
             \/ origin \in 1..Len(streams) /\ streams[origin].cancelled
             \/ /\ msg.type \in {"logStreamErrorMsg", "logStreamEndedMsg"}
                /\ \A i \in 1..Len(streams) : streams[i].cancelled
       IN  (stopped /\ Deliver(msg)) =>
             /\ m'.logView.lines = m.logView.lines
             /\ m'.logView.state = m.logView.state
             /\ m'.logStreamActive = m.logStreamActive
             /\ m'.logChan = m.logChan]_vars

\* C38: Help opened over Logs and dismissed does not stop consumption.  The
\* consumer never shows Streaming on a stored channel with neither a read
\* pending nor a result of the stream on its way; and with the screen on
\* Logs and the stream active, lines waiting in the channel do not wait
\* for ever.
C38_HelpKeepsConsuming ==
  LET reading ==
        \/ \E c \in BagToSet(cmds) : c.type = "waitForNextLogLine"
        \/ \E msg \in BagToSet(msgs) :
             msg.type \in {"logLineMsg", "logStreamErrorMsg",
                           "logStreamEndedMsg"}
      waiting == /\ m.view = "Logs"
                 /\ m.logStreamActive
                 /\ m.logChan # 0
                 /\ streams[m.logChan].queue # <<>>
  IN  /\ []((m.logView.state = "Streaming" /\ m.logChan # 0) => reading)
      /\ (waiting ~> ~waiting)

\* C39: at any time at most one wait for the next line is pending on a
\* line channel, whatever the interleaving of keys and result messages.
C39_OneWaitPerChannel ==
  \A c \in BagToSet(cmds) :
    c.type = "waitForNextLogLine" => CopiesIn(c, cmds) <= 1

\* C40: the pod-loading flag is true exactly when at least one pod-list
\* load is in flight: requested and its result not yet handled, be it
\* still running or its message on the way.
C40_LoadingFlagExact ==
  m.loadingPods <=>
    \/ \E c \in BagToSet(cmds) : c.type = "loadPods"
    \/ \E msg \in BagToSet(msgs) : msg.type = "podsLoadedMsg"

====
